---- MODULE Spec2Model ----
(***************************************************************************)
(* A model of the keyfile authority of polkit-no-script:                   *)
(*   src/src/polkitbackend/polkitbackendpolicyfile.c      (rule compiler   *)
(*                                                          and evaluator) *)
(*   src/src/polkitbackend/polkitbackendkeyfileauthority.c (loader, reload,*)
(*                                                          admin harvest) *)
(* C strings are sequences of one-character strings, so that g_strstrip,   *)
(* g_ascii_strdown, strstr, strrchr and strcmp are computed, not assumed.  *)
(***************************************************************************)
EXTENDS Integers, Sequences, FiniteSets, TLC

VARIABLES rules_dirs, disk, policy, pc, last, reload, reader, pending

vars == <<rules_dirs, disk, policy, pc, last, reload, reader, pending>>

(***************************************************************************)
(* Bounds of the model.                                                    *)
(***************************************************************************)
\* longest normal chain of the rule files the evaluation is checked on
MaxRules == 2
\* longest chain of rule files the evaluation / admin harvest is checked on
MaxFiles == 2
\* longest list of rule directories the authority is constructed with
MaxDirs == 2

(***************************************************************************)
(* C strings.                                                              *)
(***************************************************************************)
\* g_ascii_isspace, restricted to the blank
IsSpace(c) == c = " "

RECURSIVE g_strchug(_)
\* g_strchug: drop leading white space
g_strchug(s) ==
  IF s # <<>> /\ IsSpace(Head(s)) THEN g_strchug(Tail(s)) ELSE s

RECURSIVE g_strchomp(_)
\* g_strchomp: drop trailing white space
g_strchomp(s) ==
  IF s # <<>> /\ IsSpace(s[Len(s)]) THEN g_strchomp(SubSeq(s, 1, Len(s) - 1)) ELSE s

\* g_strstrip(s) is g_strchomp (g_strchug (s)); it rewrites the buffer in place
g_strstrip(s) == g_strchomp(g_strchug(s))

\* g_ascii_tolower on the letters the model uses
ToLower(c) ==
  CASE c = "Y" -> "y"
    [] c = "E" -> "e"
    [] c = "S" -> "s"
    [] c = "N" -> "n"
    [] c = "O" -> "o"
    [] OTHER -> c

\* g_ascii_strdown (inp, -1)
g_ascii_strdown(s) == [i \in 1..Len(s) |-> ToLower(s[i])]

\* g_str_equal
g_str_equal(a, b) == a = b

\* strstr (haystack, needle) != NULL
strstr(haystack, needle) ==
  \E i \in 0..(Len(haystack) - Len(needle)) :
    SubSeq(haystack, i + 1, i + Len(needle)) = needle

\* g_str_has_prefix / g_str_has_suffix
g_str_has_prefix(s, p) == Len(s) >= Len(p) /\ SubSeq(s, 1, Len(p)) = p

g_str_has_suffix(s, p) ==
  Len(s) >= Len(p) /\ SubSeq(s, Len(s) - Len(p) + 1, Len(s)) = p

\* the byte value of a character (ASCII), for strcmp
CharCode(c) ==
  CASE c = " " -> 32 [] c = "#" -> 35 [] c = "%" -> 37 [] c = "*" -> 42
    [] c = "." -> 46 [] c = "/" -> 47
    [] c = "a" -> 97 [] c = "b" -> 98 [] c = "c" -> 99 [] c = "d" -> 100
    [] c = "e" -> 101 [] c = "k" -> 107 [] c = "l" -> 108 [] c = "o" -> 111
    [] c = "r" -> 114 [] c = "s" -> 115 [] c = "t" -> 116 [] c = "u" -> 117
    [] c = "x" -> 120 [] c = "y" -> 121
    [] OTHER -> 63

RECURSIVE g_strcmp0(_, _)
\* g_strcmp0 on two non-NULL strings: strcmp, as -1, 0 or 1
g_strcmp0(a, b) ==
  IF a = <<>> /\ b = <<>> THEN 0
  ELSE IF a = <<>> THEN -1
  ELSE IF b = <<>> THEN 1
  ELSE IF CharCode(Head(a)) < CharCode(Head(b)) THEN -1
  ELSE IF CharCode(Head(a)) > CharCode(Head(b)) THEN 1
  ELSE g_strcmp0(Tail(a), Tail(b))

(***************************************************************************)
(* Verdicts: PolkitImplicitAuthorization.                                  *)
(***************************************************************************)
UNKNOWN == "UNKNOWN"
NOT_AUTHORIZED == "NOT_AUTHORIZED"
AUTHENTICATION_REQUIRED == "AUTHENTICATION_REQUIRED"
ADMINISTRATOR_AUTHENTICATION_REQUIRED == "ADMINISTRATOR_AUTHENTICATION_REQUIRED"
AUTHORIZED == "AUTHORIZED"

\* the verdict names polkit_implicit_authorization_from_string recognises
\* (of them the model uses "no", "yes", "auth_self", "auth_admin")
str_no == <<"n", "o">>
str_yes == <<"y", "e", "s">>
str_auth_self == <<"a", "u", "t", "h", "_", "s", "e", "l", "f">>
str_auth_admin == <<"a", "u", "t", "h", "_", "a", "d", "m", "i", "n">>

\* policy_string_to_result: lower-case, strip, look the name up
policy_string_to_result(inp) ==
  LET comparison == g_strstrip(g_ascii_strdown(inp))
  IN  CASE comparison = str_no -> NOT_AUTHORIZED
        [] comparison = str_yes -> AUTHORIZED
        [] comparison = str_auth_self -> AUTHENTICATION_REQUIRED
        [] comparison = str_auth_admin -> ADMINISTRATOR_AUTHENTICATION_REQUIRED
        [] OTHER -> UNKNOWN

(***************************************************************************)
(* The key file of one rule file, as GKeyFile hands it out: whether the    *)
(* file loads at all, and its groups, each a function from the keys it     *)
(* holds to the value g_key_file_get_string_list / _get_string /           *)
(* _get_boolean returns for it (or the error it sets).                     *)
(***************************************************************************)
\* a key whose value the key file returns
Val(v) == [err |-> FALSE, val |-> v]
\* a key whose value the key file cannot return (GError set)
Bad == [err |-> TRUE, val |-> <<>>]

POLICY_SECTION == <<"P", "o", "l", "i", "c", "y">>
POLICY_MATCH_ALL == <<"*">>
POLICY_MATCH_WHEEL == <<"%", "s", "u", "d", "o", "%">>
\* WHEEL_GROUP of the build (config.h)
POLICY_WHEEL_GROUP == <<"w", "h", "e", "e", "l">>

g_key_file_has_group(file, group) == group \in DOMAIN file.groups

g_key_file_has_key(file, group, key) ==
  g_key_file_has_group(file, group) /\ key \in DOMAIN file.groups[group]

\* the constraint bits of PolicyFileConstraints, as a set
PF_CONSTRAINT_ACTIONS == "ACTIONS"
PF_CONSTRAINT_ACTION_CONTAINS == "ACTION_CONTAINS"
PF_CONSTRAINT_SUBJECT_ACTIVE == "SUBJECT_ACTIVE"
PF_CONSTRAINT_SUBJECT_LOCAL == "SUBJECT_LOCAL"
PF_CONSTRAINT_UNIX_GROUPS == "UNIX_GROUPS"
PF_CONSTRAINT_UNIX_NAMES == "UNIX_NAMES"
PF_CONSTRAINT_NET_GROUPS == "NET_GROUPS"
PF_CONSTRAINT_RESULT == "RESULT"
PF_CONSTRAINT_RESULT_INVERSE == "RESULT_INVERSE"

\* g_new0 (Policy, 1): every field zero; the enum value 0 is NOT_AUTHORIZED
NewPolicy(section_id) ==
  [id |-> section_id, actions |-> <<>>, action_contains |-> <<>>,
   unix_groups |-> <<>>, unix_names |-> <<>>, net_groups |-> <<>>,
   require_active |-> FALSE, require_local |-> FALSE,
   response |-> NOT_AUTHORIZED, response_inverse |-> NOT_AUTHORIZED,
   constraints |-> {}]

\* the keys policy_load reads, in the order it reads them, with the field and
\* the constraint bit each one sets
LoadSteps ==
  <<[key |-> "Actions", field |-> "actions", bit |-> PF_CONSTRAINT_ACTIONS],
    [key |-> "ActionContains", field |-> "action_contains",
     bit |-> PF_CONSTRAINT_ACTION_CONTAINS],
    [key |-> "InUnixGroups", field |-> "unix_groups", bit |-> PF_CONSTRAINT_UNIX_GROUPS],
    [key |-> "InNetGroups", field |-> "net_groups", bit |-> PF_CONSTRAINT_NET_GROUPS],
    [key |-> "Result", field |-> "response", bit |-> PF_CONSTRAINT_RESULT],
    [key |-> "ResultInverse", field |-> "response_inverse",
     bit |-> PF_CONSTRAINT_RESULT_INVERSE],
    [key |-> "InUserNames", field |-> "unix_names", bit |-> PF_CONSTRAINT_UNIX_NAMES],
    [key |-> "SubjectActive", field |-> "require_active",
     bit |-> PF_CONSTRAINT_SUBJECT_ACTIVE],
    [key |-> "SubjectLocal", field |-> "require_local",
     bit |-> PF_CONSTRAINT_SUBJECT_LOCAL]>>

\* the value policy_load stores for a key: the verdict of a Result or
\* ResultInverse string, the list or boolean of any other key
StoredValue(key, v) ==
  IF key \in {"Result", "ResultInverse"} THEN policy_string_to_result(g_strstrip(v))
  ELSE v

\* the check that follows the parse of a verdict key: after "Result" and after
\* "ResultInverse" alike it reads policy->response
VerdictRejected(p, key) == p.response = UNKNOWN

RECURSIVE LoadKeys(_, _, _)
\* policy_load from its i-th key on, p being the Policy so far:
\* [tag |-> "policy", policy |-> p]; "null": handle_err is reached with the
\* GError set and NULL is returned; "ub": handle_err is reached with
\* err == NULL and reads err->message
LoadKeys(g, p, i) ==
  IF i > Len(LoadSteps) THEN [tag |-> "policy", policy |-> p]
  ELSE IF LoadSteps[i].key \notin DOMAIN g THEN LoadKeys(g, p, i + 1)
  ELSE IF g[LoadSteps[i].key].err THEN [tag |-> "null"]
  ELSE IF LoadSteps[i].key \in {"Result", "ResultInverse"}
          /\ VerdictRejected(
               [p EXCEPT ![LoadSteps[i].field] =
                           StoredValue(LoadSteps[i].key, g[LoadSteps[i].key].val)],
               LoadSteps[i].key)
  THEN [tag |-> "ub"]
  ELSE LoadKeys(g,
                [p EXCEPT ![LoadSteps[i].field] =
                            StoredValue(LoadSteps[i].key, g[LoadSteps[i].key].val),
                          !.constraints = @ \cup {LoadSteps[i].bit}],
                i + 1)

\* policy_load (file, section_id)
policy_load(file, section_id) ==
  IF ~g_key_file_has_group(file, section_id) THEN [tag |-> "null"]
  ELSE LoadKeys(file.groups[section_id], NewPolicy(section_id), 1)

\* one turn of the loop of policy_file_load_rules: p is what policy_load
\* returned, rest what the loop does with the sections that follow
SectionStep(p, rest) ==
  IF p.tag = "ub" THEN [tag |-> "ub"]
  ELSE IF p.tag = "null" THEN [tag |-> "fail"]
  ELSE IF rest.tag = "ok" THEN [tag |-> "ok", chain |-> <<p.policy>> \o rest.chain]
  ELSE rest

RECURSIVE LoadSections(_, _, _)
\* the loop of policy_file_load_rules over sections[i .. n_sections-1]:
\* [tag |-> "ok", chain |-> the rules linked], "fail" (FALSE is returned) or "ub"
LoadSections(keyfile, sections, i) ==
  IF i > Len(sections) THEN [tag |-> "ok", chain |-> <<>>]
  ELSE SectionStep(policy_load(keyfile, g_strstrip(sections[i])),
                   LoadSections(keyfile, sections, i + 1))

\* policy_file_load_rules (keyfile, section, &target), for a key that is there
policy_file_load_rules(keyfile, section) ==
  IF section \notin DOMAIN keyfile.groups[POLICY_SECTION]
  THEN [tag |-> "ok", chain |-> <<>>]
  ELSE IF keyfile.groups[POLICY_SECTION][section].err THEN [tag |-> "fail"]
  ELSE LoadSections(keyfile, keyfile.groups[POLICY_SECTION][section].val, 1)

\* "No sense in loading empty rules": what the function returns once both keys
\* have been handled without a failure
HasRulesGate(has_rules, normal, admin) ==
  IF ~has_rules THEN [tag |-> "null_noerr"]
  ELSE [tag |-> "file", file |-> [normal |-> normal, admin |-> admin]]

\* policy_file_new_from_path once the key file is loaded: n and a are what
\* policy_file_load_rules made of "Rules" and "AdminRules"
NewFromRules(hasN, hasA, n, a) ==
  IF hasN /\ n.tag = "ub" THEN [tag |-> "ub"]
  ELSE IF hasN /\ n.tag = "fail" THEN [tag |-> "null_noerr"]
  ELSE IF hasA /\ a.tag = "ub" THEN [tag |-> "ub"]
  ELSE IF hasA /\ a.tag = "fail" THEN [tag |-> "null_noerr"]
  ELSE HasRulesGate(hasN \/ hasA, n.chain, a.chain)

\* policy_file_new_from_path, on the key file found at the path:
\*   "file"       a PolicyFile is returned
\*   "null_err"   NULL is returned and *err is set (the file does not load)
\*   "null_noerr" NULL is returned and *err is left NULL
\*   "ub"         policy_load read err->message of a NULL err
policy_file_new_from_path(keyf) ==
  IF ~keyf.loads THEN [tag |-> "null_err"]
  ELSE IF ~g_key_file_has_group(keyf, POLICY_SECTION) THEN [tag |-> "null_noerr"]
  ELSE NewFromRules(g_key_file_has_key(keyf, POLICY_SECTION, "Rules"),
                    g_key_file_has_key(keyf, POLICY_SECTION, "AdminRules"),
                    policy_file_load_rules(keyf, "Rules"),
                    policy_file_load_rules(keyf, "AdminRules"))

(***************************************************************************)
(* The evaluator: policy_test and policy_file_test.  A chain of Policy     *)
(* (or PolicyFile) structs linked by ->next is a sequence.  The test       *)
(* g_strstrip()s the stored list entries it visits, in place, so it        *)
(* returns the chain as it leaves it together with the verdict; the trace  *)
(* lists, in order, the rules the test was run on.                         *)
(***************************************************************************)
HasBit(p, bit) == bit \in p.constraints

\* the least element of a set of indices, 0 for the empty set: given the
\* indices i at which the test of a loop
\* "for (i...) { e = g_strstrip (list[i]); if (test (e)) break; }" succeeds, the
\* index at which the loop breaks, 0 when it runs to the end
FirstOf(S) == IF S = {} THEN 0 ELSE CHOOSE i \in S : \A j \in S : i <= j

\* the list after such a loop: the entries it visited are stripped in place
StripVisited(list, hit) ==
  [i \in 1..Len(list) |->
     IF hit = 0 \/ i <= hit THEN g_strstrip(list[i]) ELSE list[i]]

\* a variant of the "Actions" test that reads a trailing '*' as a glob
ActionEntryMatchesGlob(action, action_id) ==
  \/ g_str_equal(action, action_id)
  \/ g_str_equal(action, POLICY_MATCH_ALL)
  \/ /\ action # <<>>
     /\ action[Len(action)] = "*"
     /\ g_str_has_prefix(action_id, SubSeq(action, 1, Len(action) - 1))

\* the test the "Actions" loop applies to one stripped entry
ActionEntryMatches(action, action_id) ==
  g_str_equal(action, action_id) \/ g_str_equal(action, POLICY_MATCH_ALL)

\* the test the "ActionContains" loop applies to one stripped entry
ContainsEntryMatches(action, action_id) == strstr(action_id, action)

\* where the "Actions" loop breaks (0: it does not, or the bit is not set)
ActionsHit(p, action_id) ==
  IF HasBit(p, PF_CONSTRAINT_ACTIONS)
  THEN FirstOf({i \in 1..Len(p.actions) :
                  ActionEntryMatches(g_strstrip(p.actions[i]), action_id)})
  ELSE 0

\* where the "ActionContains" loop breaks
ActionContainsHit(p, action_id) ==
  IF HasBit(p, PF_CONSTRAINT_ACTION_CONTAINS)
  THEN FirstOf({i \in 1..Len(p.action_contains) :
                  ContainsEntryMatches(g_strstrip(p.action_contains[i]), action_id)})
  ELSE 0

\* a variant of the group test that compares the placeholder literally
WheelSubstNone(spec_group) == spec_group

\* "perform %wheel% substitution here"
WheelSubst(spec_group) ==
  IF g_str_equal(spec_group, POLICY_MATCH_WHEEL) THEN POLICY_WHEEL_GROUP
  ELSE spec_group

\* local_test of the "Unix Groups" block
UnixGroupsTest(p, context) ==
  \E i \in 1..Len(p.unix_groups) : \E j \in 1..Len(context.groups) :
    g_str_equal(WheelSubst(g_strstrip(p.unix_groups[i])), context.groups[j])

\* where the "Unix usernames" loop breaks
UnixNamesHit(p, context) ==
  FirstOf({i \in 1..Len(p.unix_names) :
             g_str_equal(g_strstrip(p.unix_names[i]), context.username)})

\* the value of `conditions' with which a failed SubjectActive check jumps to
\* unmatched: the check leaves the flag as the action test set it
ActiveFailConditions == TRUE

\* the value of `conditions' with which a failed SubjectLocal check jumps
LocalFailConditions == FALSE

\* a variant of the walk that tests InNetGroups after InUnixGroups: the
\* context names no net group, so a rule that lists net groups is not met
StageReachedWithNetGroups(p, context, hitA, hitC, hitN) ==
  IF ~(hitA > 0 \/ hitC > 0) THEN "action"
  ELSE IF HasBit(p, PF_CONSTRAINT_SUBJECT_ACTIVE)
          /\ context.subject_is_active # p.require_active THEN "active"
  ELSE IF HasBit(p, PF_CONSTRAINT_SUBJECT_LOCAL)
          /\ context.subject_is_local # p.require_local THEN "local"
  ELSE IF HasBit(p, PF_CONSTRAINT_UNIX_GROUPS) /\ ~UnixGroupsTest(p, context)
  THEN "groups"
  ELSE IF HasBit(p, PF_CONSTRAINT_NET_GROUPS) /\ p.net_groups # <<>> THEN "netgroups"
  ELSE IF HasBit(p, PF_CONSTRAINT_UNIX_NAMES) /\ hitN = 0 THEN "names"
  ELSE "end"

\* the block of policy_test at which the walk over the constraints of a rule
\* ends: "action" (no action pattern matched), "active", "local", "groups",
\* "names" (that check failed), or "end" (every present constraint passed)
StageReached(p, context, hitA, hitC, hitN) ==
  IF ~(hitA > 0 \/ hitC > 0) THEN "action"
  ELSE IF HasBit(p, PF_CONSTRAINT_SUBJECT_ACTIVE)
          /\ context.subject_is_active # p.require_active THEN "active"
  ELSE IF HasBit(p, PF_CONSTRAINT_SUBJECT_LOCAL)
          /\ context.subject_is_local # p.require_local THEN "local"
  ELSE IF HasBit(p, PF_CONSTRAINT_UNIX_GROUPS) /\ ~UnixGroupsTest(p, context)
  THEN "groups"
  ELSE IF HasBit(p, PF_CONSTRAINT_UNIX_NAMES) /\ hitN = 0 THEN "names"
  ELSE "end"

\* the rule as the loops leave it: they g_strstrip the entries they visit
\* (the group loop strips an entry once per group of the context)
StrippedRule(p, context, stage, hitA, hitC, hitN) ==
  [p EXCEPT
     !.actions = IF HasBit(p, PF_CONSTRAINT_ACTIONS) THEN StripVisited(@, hitA) ELSE @,
     !.action_contains =
        IF HasBit(p, PF_CONSTRAINT_ACTION_CONTAINS) THEN StripVisited(@, hitC) ELSE @,
     !.unix_groups =
        IF stage \in {"groups", "names", "end"} /\ HasBit(p, PF_CONSTRAINT_UNIX_GROUPS)
           /\ Len(context.groups) > 0
        THEN StripVisited(@, 0) ELSE @,
     !.unix_names =
        IF stage \in {"names", "end"} /\ HasBit(p, PF_CONSTRAINT_UNIX_NAMES)
        THEN StripVisited(@, hitN) ELSE @]

\* a variant of the walk that takes policy->response whether or not the rule
\* declares Result
AtUnmatchedAnyResponse(p, stage) ==
  [id_matched |-> stage # "action",
   conditions |-> CASE stage = "action" -> FALSE
                    [] stage = "active" -> ActiveFailConditions
                    [] stage = "local" -> LocalFailConditions
                    [] stage = "end" -> TRUE
                    [] OTHER -> FALSE,
   response |-> IF stage = "end" THEN p.response ELSE UNKNOWN]

\* id_matched, conditions and response at the label unmatched
AtUnmatched(p, stage) ==
  [id_matched |-> stage # "action",
   conditions |-> CASE stage = "action" -> FALSE
                    [] stage = "active" -> ActiveFailConditions
                    [] stage = "local" -> LocalFailConditions
                    [] stage = "end" -> TRUE
                    [] OTHER -> FALSE,
   response |-> IF stage = "end" /\ HasBit(p, PF_CONSTRAINT_RESULT)
                THEN p.response ELSE UNKNOWN]

\* a variant of the code at the label unmatched without the "if (!id_matched)"
\* block
UnmatchedWithoutIdCheck(p, o, has_next) ==
  IF ~o.conditions /\ HasBit(p, PF_CONSTRAINT_RESULT_INVERSE)
  THEN [recurse |-> FALSE, response |-> p.response_inverse]
  ELSE IF o.response = UNKNOWN /\ has_next THEN [recurse |-> TRUE, response |-> UNKNOWN]
  ELSE [recurse |-> FALSE, response |-> o.response]

\* the code at the label unmatched: either a verdict is returned, or the test
\* goes on with policy->next
Unmatched(p, o, has_next) ==
  IF ~o.id_matched
  THEN IF o.response = UNKNOWN /\ has_next THEN [recurse |-> TRUE, response |-> UNKNOWN]
       ELSE [recurse |-> FALSE, response |-> o.response]
  ELSE IF ~o.conditions /\ HasBit(p, PF_CONSTRAINT_RESULT_INVERSE)
  THEN [recurse |-> FALSE, response |-> p.response_inverse]
  ELSE IF o.response = UNKNOWN /\ has_next THEN [recurse |-> TRUE, response |-> UNKNOWN]
  ELSE [recurse |-> FALSE, response |-> o.response]

\* the body of policy_test for one rule, given where its three search loops
\* break: the stage reached, what the code at unmatched does, the rule after it
TestRuleAt(p, context, has_next, stage, hitA, hitC, hitN) ==
  [stage |-> stage,
   out |-> AtUnmatched(p, stage),
   next |-> Unmatched(p, AtUnmatched(p, stage), has_next),
   policy |-> StrippedRule(p, context, stage, hitA, hitC, hitN)]

TestRuleHits(p, context, has_next, hitA, hitC, hitN) ==
  TestRuleAt(p, context, has_next, StageReached(p, context, hitA, hitC, hitN),
             hitA, hitC, hitN)

\* the body of policy_test for one rule
TestRule(p, action_id, context, has_next) ==
  TestRuleHits(p, context, has_next, ActionsHit(p, action_id),
               ActionContainsHit(p, action_id), UnixNamesHit(p, context))

\* the entry of the trace for the k-th rule of a chain
RuleStep(k, t) ==
  [rule |-> k, stage |-> t.stage, id_matched |-> t.out.id_matched,
   conditions |-> t.out.conditions, returned |-> ~t.next.recurse]

\* policy_test on the k-th rule, t being the outcome of its body and r what
\* policy_test returns for policy->next
PolicyTestStep(chain, k, t, r) ==
  IF t.next.recurse
  THEN [response |-> r.response, chain |-> [r.chain EXCEPT ![k] = t.policy],
        trace |-> <<RuleStep(k, t)>> \o r.trace]
  ELSE [response |-> t.next.response, chain |-> [chain EXCEPT ![k] = t.policy],
        trace |-> <<RuleStep(k, t)>>]

RECURSIVE policy_test(_, _, _, _)
\* policy_test on the k-th rule of a chain: the verdict, the chain as the test
\* leaves it, and the rules it was run on
policy_test(chain, k, action_id, context) ==
  PolicyTestStep(chain, k, TestRule(chain[k], action_id, context, k < Len(chain)),
                 IF k < Len(chain) THEN policy_test(chain, k + 1, action_id, context)
                 ELSE [response |-> UNKNOWN, chain |-> chain, trace |-> <<>>])

\* a variant of the hand-over of policy_file_test that does not look at the
\* response
PassDownAlways(response, has_next) == has_next

\* whether policy_file_test hands the request on to file->next
PassDownTheChain(response, has_next) == response = UNKNOWN /\ has_next

\* policy_file_test on the f-th file, t being what policy_test returned for its
\* normal chain and r what policy_file_test returns for file->next
PolicyFileTestStep(files, f, t, r) ==
  IF PassDownTheChain(t.response, f < Len(files))
  THEN [response |-> r.response, files |-> [r.files EXCEPT ![f].normal = t.chain],
        trace |-> <<[file |-> f, response |-> t.response, rules |-> t.trace]>>
                  \o r.trace]
  ELSE [response |-> t.response, files |-> [files EXCEPT ![f].normal = t.chain],
        trace |-> <<[file |-> f, response |-> t.response, rules |-> t.trace]>>]

RECURSIVE policy_file_test(_, _, _, _)
\* policy_file_test on the f-th file of a non-empty chain of files; the trace
\* holds, per file visited, the verdict of its normal chain and the rules tested
policy_file_test(files, f, action_id, context) ==
  PolicyFileTestStep(files, f,
    IF files[f].normal # <<>> THEN policy_test(files[f].normal, 1, action_id, context)
    ELSE [response |-> UNKNOWN, chain |-> <<>>, trace |-> <<>>],
    IF f < Len(files) THEN policy_file_test(files, f + 1, action_id, context)
    ELSE [response |-> UNKNOWN, files |-> files, trace |-> <<>>])

(***************************************************************************)
(* The loader: rules_file_name_cmp and load_rules.  The disk maps a        *)
(* directory to what g_dir_open / g_dir_read_name give for it: whether it  *)
(* opens, its files by name, each the key file GKeyFile reads from it, and *)
(* which of two opposite orders g_dir_read_name returns the names in.      *)
(***************************************************************************)
RULES_SUFFIX == <<".", "k", "e", "y", "r", "u", "l", "e", "s">>

\* g_strdup_printf ("%s/%s", dir_name, name)
PathOf(dir_name, name) == dir_name \o <<"/">> \o name

\* strrchr (a, '/') + 1: what follows the last '/'
BaseName(a) ==
  LET S == {i \in 1..Len(a) : a[i] = "/"}
      k == CHOOSE i \in S : \A j \in S : j <= i
  IN  SubSeq(a, k + 1, Len(a))

\* a variant of the tie-break with its arguments swapped
TieBreakSwapped(a, b) == g_strcmp0(b, a)

\* what breaks a tie of two equal base names
TieBreak(a, b) == g_strcmp0(a, b)

\* rules_file_name_cmp (a, b): negative, positive, or 0 where g_assert (ret != 0)
\* fails and aborts the process
rules_file_name_cmp(a, b) ==
  LET ret == g_strcmp0(BaseName(a), BaseName(b))
  IN  IF ret = 0 THEN TieBreak(a, b) ELSE ret

RECURSIVE SetToList(_)
\* the names of a directory in some order g_dir_read_name returns them in
SetToList(S) ==
  IF S = {} THEN <<>>
  ELSE LET x == CHOOSE y \in S : TRUE IN <<x>> \o SetToList(S \ {x})

\* the names of a directory in the order g_dir_read_name returns them
ReadNames(d) ==
  LET l == SetToList(DOMAIN d.files)
  IN  IF d.reversed THEN [i \in 1..Len(l) |-> l[Len(l) + 1 - i]] ELSE l

\* the paths the first loop of load_rules collects from one directory
DirFiles(dsk, dir_name) ==
  IF dir_name \notin DOMAIN dsk \/ ~dsk[dir_name].opens THEN <<>>
  ELSE LET l == SelectSeq(ReadNames(dsk[dir_name]),
                          LAMBDA n : g_str_has_suffix(n, RULES_SUFFIX))
       IN  [i \in 1..Len(l) |-> PathOf(dir_name, l[i])]

RECURSIVE CollectFiles(_, _, _)
\* the list `files' after the first loop, over rules_dirs[n ..]
CollectFiles(dsk, dirs, n) ==
  IF n > Len(dirs) THEN <<>>
  ELSE DirFiles(dsk, dirs[n]) \o CollectFiles(dsk, dirs, n + 1)

\* InsertSorted at the i-th element, c being the comparator's answer for it
InsertAt(sorted, x, i, c, further) ==
  IF c = 0 THEN [abort |-> TRUE, list |-> sorted]
  ELSE IF c < 0
  THEN [abort |-> FALSE,
        list |-> SubSeq(sorted, 1, i - 1) \o <<x>> \o SubSeq(sorted, i, Len(sorted))]
  ELSE further

RECURSIVE InsertSorted(_, _, _)
\* the place of x in a sorted list, by the comparator; abort when the
\* comparator's assertion fails
InsertSorted(sorted, x, i) ==
  IF i > Len(sorted) THEN [abort |-> FALSE, list |-> sorted \o <<x>>]
  ELSE InsertAt(sorted, x, i, rules_file_name_cmp(x, sorted[i]),
                InsertSorted(sorted, x, i + 1))

\* one more file sorted into what is sorted so far
SortStep(r, x) == IF r.abort THEN r ELSE InsertSorted(r.list, x, 1)

RECURSIVE SortFiles(_, _)
\* g_list_sort (files, rules_file_name_cmp): the comparator is a total order on
\* distinct paths, so the sorted list is the same for every sorting algorithm,
\* and every comparison sort compares two equal paths that are both in the list
SortFiles(files, n) ==
  IF n = 0 THEN [abort |-> FALSE, list |-> <<>>]
  ELSE SortStep(SortFiles(files, n - 1), files[n])

\* the directory part of a path "dir/name"
DirName(path, base) == SubSeq(path, 1, Len(path) - Len(base) - 1)

\* the key file at a path "dir/name" the loader collected
KeyFileIn(dsk, path, base) == dsk[DirName(path, base)].files[base]

KeyFileAt(dsk, path) == KeyFileIn(dsk, path, BaseName(path))

\* what load_rules does with a file that policy_file_new_from_path returned
\* NULL for: "skip" (log err->message, continue) or "ub" (err is NULL and
\* err->message is read)
CompileFailure(tag) == IF tag = "null_err" THEN "skip" ELSE "ub"

\* one turn of the second loop of load_rules: c is what
\* policy_file_new_from_path returned, rest what the loop does with the files
\* that follow
LinkStep(filename, c, rest, ub_crashes) ==
  IF c.tag = "file"
  THEN [rest EXCEPT !.chain = <<c.file>> \o @, !.linked = <<filename>> \o @]
  ELSE IF (c.tag = "ub" \/ CompileFailure(c.tag) = "ub") /\ ub_crashes
  THEN [crash |-> TRUE, chain |-> <<>>, linked |-> <<>>]
  ELSE rest

RECURSIVE LinkFiles(_, _, _, _)
\* the second loop of load_rules over the sorted list, from its l-th element:
\* the chain linked, the file names it was linked from, and whether the
\* process died on the way.  Reading err->message of a NULL err is undefined:
\* ub_crashes says whether the build at hand crashes there or reads on.
LinkFiles(dsk, sorted, l, ub_crashes) ==
  IF l > Len(sorted) THEN [crash |-> FALSE, chain |-> <<>>, linked |-> <<>>]
  ELSE LinkStep(sorted[l], policy_file_new_from_path(KeyFileAt(dsk, sorted[l])),
                LinkFiles(dsk, sorted, l + 1, ub_crashes), ub_crashes)

\* what load_rules leaves: "done" with the chain now at authority->priv->policy
\* and the count it logs, "abort" (the comparator's assertion), "crash"
LoadOutcome(abort, linked) ==
  IF abort THEN [tag |-> "abort", policy |-> <<>>, num_files |-> 0, linked |-> <<>>]
  ELSE IF linked.crash
  THEN [tag |-> "crash", policy |-> <<>>, num_files |-> 0, linked |-> <<>>]
  ELSE [tag |-> "done", policy |-> linked.chain, num_files |-> Len(linked.chain),
        linked |-> linked.linked]

\* load_rules once the files are sorted
LoadSorted(dsk, sorted, ub_crashes) ==
  LoadOutcome(sorted.abort,
              IF sorted.abort THEN [crash |-> FALSE, chain |-> <<>>, linked |-> <<>>]
              ELSE LinkFiles(dsk, sorted.list, 1, ub_crashes))

\* a variant of the loader that links the files in the order collected
LeaveUnsorted(files) == [abort |-> FALSE, list |-> files]

\* the sorted list of the files collected
SortCollected(files) == SortFiles(files, Len(files))

\* load_rules (authority)
load_rules(dirs, dsk, ub_crashes) ==
  LoadSorted(dsk, SortCollected(CollectFiles(dsk, dirs, 1)), ub_crashes)

(***************************************************************************)
(* The operating system behind prepare_context: the user and group         *)
(* databases (getpwuid, getgrouplist, getgrgid) and the bus.               *)
(***************************************************************************)
usr_u == <<"u">>
usr_v == <<"v">>
usr_x == <<"x">>

\* getpwuid (uid): uid 2 has no entry
Passwd(uid) ==
  CASE uid = 1 -> [found |-> TRUE, pw_name |-> usr_u]
    [] uid = 2 -> [found |-> FALSE, pw_name |-> <<>>]
    [] uid = 3 -> [found |-> TRUE, pw_name |-> usr_v]
    [] OTHER   -> [found |-> TRUE, pw_name |-> usr_x]

\* getgrouplist (pw_name, ...): the gids, or a failure (< 0)
GroupList(pw_name) ==
  CASE pw_name = usr_u -> [ok |-> TRUE, gids |-> <<10>>]
    [] pw_name = usr_v -> [ok |-> TRUE, gids |-> <<10, 11>>]
    [] OTHER           -> [ok |-> TRUE, gids |-> <<11>>]

\* getgrgid (gid): gid 10 is the wheel group, gid 11 has no entry
Group(gid) ==
  IF gid = 10 THEN [found |-> TRUE, gr_name |-> POLICY_WHEEL_GROUP]
  ELSE [found |-> FALSE, gr_name |-> <<>>]

Digits == <<"0", "1", "2", "3", "4", "5", "6", "7", "8", "9">>

RECURSIVE Decimal(_)
\* g_strdup_printf ("%d", n) for n >= 0
Decimal(n) ==
  IF n < 10 THEN <<Digits[n + 1]>> ELSE Decimal(n \div 10) \o <<Digits[(n % 10) + 1]>>

\* what prepare_context makes of a uid the user database does not know
UnknownUser(uid, local, active) ==
  [ok |-> TRUE,
   context |-> [username |-> Decimal(uid), groups |-> <<>>,
                subject_is_local |-> local, subject_is_active |-> active]]

\* polkit_backend_keyfile_internal_prepare_context: FALSE, or TRUE with the
\* username and the groups filled in
prepare_context(subject, local, active) ==
  IF subject.kind = "system-bus-name" /\ ~subject.process_found
  THEN [ok |-> FALSE]
  ELSE
    LET passwd == Passwd(subject.uid)
        gl     == GroupList(passwd.pw_name)
        name(gid) == IF Group(gid).found THEN Group(gid).gr_name ELSE Decimal(gid)
    IN  IF ~passwd.found THEN UnknownUser(subject.uid, local, active)
        ELSE [ok |-> TRUE,
              context |->
                [username |-> passwd.pw_name,
                 groups |-> IF gl.ok THEN [n \in 1..Len(gl.gids) |-> name(gl.gids[n])]
                            ELSE <<>>,
                 subject_is_local |-> local, subject_is_active |-> active]]

(***************************************************************************)
(* The requests the authority is asked.                                    *)
(***************************************************************************)
act_ab == <<"a", "b">>
act_b == <<"b">>

ActionIds == {act_ab, act_b}

\* the subject of a request and the user it runs as (user_for_subject)
Subjects ==
  {[kind |-> "unix-process", process_found |-> TRUE, uid |-> u] : u \in 1..4}
  \cup {[kind |-> "system-bus-name", process_found |-> f, uid |-> 1] : f \in BOOLEAN}

\* the implicit authorizations a caller passes
Implicits == {AUTHENTICATION_REQUIRED, AUTHORIZED}

Verdicts ==
  {UNKNOWN, NOT_AUTHORIZED, AUTHENTICATION_REQUIRED,
   ADMINISTRATOR_AUTHENTICATION_REQUIRED, AUTHORIZED}

(***************************************************************************)
(* The authority object.                                                   *)
(*   rules_dirs  priv->rules_dirs: unset (NULL) or the list it was given   *)
(*   disk        the rule directories as the file system holds them        *)
(*   policy      priv->policy, the chain of PolicyFile (<<>> is NULL)      *)
(*   pc          "new" (allocated, properties set), "idle" (constructed),  *)
(*               "aborted" (an assertion failed), "crashed"                *)
(*   last        the last call made on the authority, its arguments and    *)
(*               what it returned                                          *)
(*   reload      the activation of reload_rules that is under way, if any  *)
(*   reader      the request that is under way on another thread, if any   *)
(*   pending     the notifications of the directory monitors that the main *)
(*               loop has not dispatched yet, oldest first                 *)
(***************************************************************************)
\* no reload is under way: priv->policy is generation gen of the rule set
NoReload == [stage |-> "none", gen |-> 0, sorted |-> <<>>, l |-> 0, linked |-> <<>>,
             old |-> <<>>]

\* no request is under way
NoReader == [stage |-> "none"]

dir_etc == <<"/", "e", "t", "c">>
dir_usr == <<"/", "u", "s", "r">>

\* PACKAGE_SYSCONF_DIR "/polkit-1/rules.d", PACKAGE_DATA_DIR "/polkit-1/rules.d"
DefaultRulesDirs == <<dir_etc, dir_usr>>

PcAfterLoad(tag) ==
  CASE tag = "done" -> "idle" [] tag = "abort" -> "aborted" [] OTHER -> "crashed"

\* the directories the authority loads from: the default ones when none were set
EffectiveDirs(rd) == IF rd.set THEN rd.dirs ELSE DefaultRulesDirs

\* the authority after load_rules returned r (or the process died in it);
\* "changed" is emitted by reload_rules, once load_rules has returned
AfterLoad(call, r) ==
  /\ policy' = r.policy
  /\ pc' = PcAfterLoad(r.tag)
  /\ last' = call @@ [tag |-> r.tag, num_files |-> r.num_files, linked |-> r.linked,
                      changed |-> call.op = "reload" /\ r.tag = "done"]

\* polkit_backend_keyfile_authority_constructed: the default directories when
\* none were given, then load_rules
Constructed(ub_crashes) ==
  /\ pc = "new"
  /\ rules_dirs' = [set |-> TRUE, dirs |-> EffectiveDirs(rules_dirs)]
  /\ AfterLoad([op |-> "load"], load_rules(EffectiveDirs(rules_dirs), disk, ub_crashes))
  /\ UNCHANGED <<disk, reload, reader, pending>>

\* a variant of the context failure that defers to the caller
ContextFailImplicit(implicit) == implicit

\* what check_authorization_sync returns when context preparation fails
ContextFailVerdict(implicit) == NOT_AUTHORIZED

\* "No rules answered, so we'll just return the implicit auth"
FinalVerdict(response, implicit) == IF response = UNKNOWN THEN implicit ELSE response

\* the record of a call of check_authorization_sync
CheckCall(subject, local, active, action_id, implicit) ==
  [op |-> "check", subject |-> subject, local |-> local, active |-> active,
   action_id |-> action_id, implicit |-> implicit, policy |-> policy]

\* check_authorization_sync once the context is prepared and a file is loaded
CheckTested(call, context, t) ==
  /\ last' = call @@ [prepared |-> TRUE, completed |-> TRUE, context |-> context,
                      trace |-> t.trace, response |-> t.response,
                      ret |-> FinalVerdict(t.response, call.implicit)]
  /\ policy' = t.files
  /\ UNCHANGED pc

\* check_authorization_sync with no file loaded: policy_file_test is handed
\* NULL and reads file->rules.normal.  That is undefined: the build either
\* dies there or reads some verdict.
CheckNullPolicy(call, context) ==
  \E garbage \in Verdicts, dies \in BOOLEAN :
    /\ last' = call @@ [prepared |-> TRUE, completed |-> ~dies, context |-> context,
                        trace |-> <<>>,
                        response |-> IF dies THEN UNKNOWN ELSE garbage,
                        ret |-> IF dies THEN UNKNOWN
                                ELSE FinalVerdict(garbage, call.implicit)]
    /\ pc' = IF dies THEN "crashed" ELSE pc
    /\ UNCHANGED policy

\* check_authorization_sync after prepare_context returned prep
CheckPrepared(call, prep) ==
  IF ~prep.ok
  THEN /\ last' = call @@ [prepared |-> FALSE, completed |-> TRUE, context |-> <<>>,
                           trace |-> <<>>, response |-> UNKNOWN,
                           ret |-> ContextFailVerdict(call.implicit)]
       /\ UNCHANGED <<policy, pc>>
  ELSE IF policy = <<>> THEN CheckNullPolicy(call, prep.context)
  ELSE CheckTested(call, prep.context,
                   policy_file_test(policy, 1, call.action_id, prep.context))

\* polkit_backend_keyfile_authority_check_authorization_sync
CheckAuthorizationSync(subject, local, active, action_id, implicit) ==
  /\ pc = "idle"
  /\ CheckPrepared(CheckCall(subject, local, active, action_id, implicit),
                   prepare_context(subject, local, active))
  /\ UNCHANGED <<rules_dirs, disk, reload, reader, pending>>

(***************************************************************************)
(* The admin harvest: build_admin and get_admin_auth_identities.  An       *)
(* identity is the object polkit_identity_from_string makes of             *)
(* "<prefix>:<identifier>": a user by uid, a group by gid (name empty), a  *)
(* netgroup by name (id 0).                                                *)
(***************************************************************************)
grp_nogrp == <<"n", "o", "g", "r", "p">>
usr_nobody == <<"n", "o", "b", "o", "d", "y">>
net_n == <<"n">>

\* getpwnam (name), the inverse of getpwuid
Getpwnam(name) ==
  CASE name = usr_u -> [found |-> TRUE, uid |-> 1]
    [] name = usr_v -> [found |-> TRUE, uid |-> 3]
    [] name = usr_x -> [found |-> TRUE, uid |-> 4]
    [] OTHER        -> [found |-> FALSE, uid |-> 0]

\* getgrnam (name), the inverse of getgrgid
Getgrnam(name) ==
  IF name = POLICY_WHEEL_GROUP THEN [found |-> TRUE, gid |-> 10]
  ELSE [found |-> FALSE, gid |-> 0]

\* polkit_identity_from_string ("<id_prefix>:<identifier>", &err)
polkit_identity_from_string(id_prefix, identifier) ==
  CASE id_prefix = "unix-user" ->
         [err |-> ~Getpwnam(identifier).found,
          identity |-> [kind |-> "unix-user", id |-> Getpwnam(identifier).uid,
                        name |-> <<>>]]
    [] id_prefix = "unix-group" ->
         [err |-> ~Getgrnam(identifier).found,
          identity |-> [kind |-> "unix-group", id |-> Getgrnam(identifier).gid,
                        name |-> <<>>]]
    [] OTHER ->
         [err |-> FALSE,
          identity |-> [kind |-> "unix-netgroup", id |-> 0, name |-> identifier]]

\* polkit_unix_user_new (0)
RootIdentity == [kind |-> "unix-user", id |-> 0, name |-> <<>>]

\* g_list_prepend (ret, i), unless the identity is not valid
PrependIdentity(ret, i) == IF i.err THEN ret ELSE <<i.identity>> \o ret

RECURSIVE build_admin(_, _, _, _)
\* polkit_backend_keyfile_internal_build_admin, from the i-th item on
build_admin(ret, grouping, i, id_prefix) ==
  IF i > Len(grouping) THEN ret
  ELSE build_admin(
         PrependIdentity(ret, polkit_identity_from_string(
                                id_prefix, WheelSubst(g_strstrip(grouping[i])))),
         grouping, i + 1, id_prefix)

\* the three lists of one admin rule, in the order the loop body hands them
\* to build_admin
AdminLists ==
  <<[bit |-> PF_CONSTRAINT_UNIX_GROUPS, field |-> "unix_groups", prefix |-> "unix-group"],
    [bit |-> PF_CONSTRAINT_UNIX_NAMES, field |-> "unix_names", prefix |-> "unix-user"],
    [bit |-> PF_CONSTRAINT_NET_GROUPS, field |-> "net_groups",
     prefix |-> "unix-netgroup"]>>

RECURSIVE HarvestRule(_, _, _)
\* the body of the loop over the admin rules, from the n-th list on
HarvestRule(ret, p, n) ==
  IF n > Len(AdminLists) THEN ret
  ELSE HarvestRule(IF HasBit(p, AdminLists[n].bit)
                   THEN build_admin(ret, p[AdminLists[n].field], 1, AdminLists[n].prefix)
                   ELSE ret,
                   p, n + 1)

RECURSIVE HarvestChain(_, _, _)
\* "for (Policy *policy = file->rules.admin; policy; policy = policy->next)"
HarvestChain(ret, chain, k) ==
  IF k > Len(chain) THEN ret
  ELSE HarvestChain(HarvestRule(ret, chain[k], 1), chain, k + 1)

RECURSIVE HarvestFiles(_, _, _)
\* "for (PolicyFile *file = authority->priv->policy; file; file = file->next)"
HarvestFiles(ret, files, f) ==
  IF f > Len(files) THEN ret
  ELSE HarvestFiles(HarvestChain(ret, files[f].admin, 1), files, f + 1)

\* a variant of the harvest that leaves the list as g_list_prepend built it
ListAsPrepended(l) == l

\* g_list_reverse
g_list_reverse(l) == [i \in 1..Len(l) |-> l[Len(l) + 1 - i]]

\* an admin rule after the harvest: build_admin g_strstrip()s, in place, every
\* entry of the lists it is handed
HarvestedRule(p) ==
  [p EXCEPT
     !.unix_groups = IF HasBit(p, PF_CONSTRAINT_UNIX_GROUPS) THEN StripVisited(@, 0) ELSE @,
     !.unix_names = IF HasBit(p, PF_CONSTRAINT_UNIX_NAMES) THEN StripVisited(@, 0) ELSE @,
     !.net_groups = IF HasBit(p, PF_CONSTRAINT_NET_GROUPS) THEN StripVisited(@, 0) ELSE @]

\* the rule set after the harvest
HarvestedFiles(files) ==
  [f \in 1..Len(files) |->
     [files[f] EXCEPT !.admin = [k \in 1..Len(@) |-> HarvestedRule(@[k])]]]

\* a variant of the harvest without the fallback
WithoutRootFallback(ret) == ret

\* "if (ret == NULL) ret = g_list_prepend (ret, polkit_unix_user_new (0))"
RootFallback(ret) == IF ret = <<>> THEN <<RootIdentity>> ELSE ret

\* the record of a call of get_admin_auth_identities
AdminCall(subject, local, active, action_id) ==
  [op |-> "admin", subject |-> subject, local |-> local, active |-> active,
   action_id |-> action_id, policy |-> policy]

\* get_admin_auth_identities after prepare_context returned prep
AdminPrepared(call, prep) ==
  IF ~prep.ok
  THEN /\ last' = call @@ [prepared |-> FALSE, ret |-> RootFallback(<<>>)]
       /\ UNCHANGED policy
  ELSE /\ last' = call @@ [prepared |-> TRUE,
                           ret |-> RootFallback(
                                     g_list_reverse(HarvestFiles(<<>>, policy, 1)))]
       /\ policy' = HarvestedFiles(policy)

\* polkit_backend_keyfile_authority_get_admin_auth_identities
GetAdminAuthIdentities(subject, local, active, action_id) ==
  /\ pc = "idle"
  /\ AdminPrepared(AdminCall(subject, local, active, action_id),
                   prepare_context(subject, local, active))
  /\ UNCHANGED <<rules_dirs, disk, pc, reload, reader, pending>>

(***************************************************************************)
(* The directory monitor and the reload.                                   *)
(***************************************************************************)
\* the GFileMonitorEvent values a monitor delivers
FileMonitorEvents ==
  {"CHANGED", "CHANGES_DONE_HINT", "DELETED", "CREATED", "ATTRIBUTE_CHANGED"}

\* the test of on_dir_monitor_changed on the base name and the event
MonitorAccepts(name, event_type) ==
  /\ ~g_str_has_prefix(name, <<".">>)
  /\ ~g_str_has_prefix(name, <<"#">>)
  /\ g_str_has_suffix(name, RULES_SUFFIX)
  /\ event_type \in {"CREATED", "DELETED", "CHANGES_DONE_HINT"}

\* the record of a notification: the file and the event it carries, and the
\* rule set that is active when it arrives
MonitorCall(file, event_type) ==
  [file |-> file, event_type |-> event_type, policy |-> policy]

\* reload_rules: the old rules are removed, load_rules runs, "changed" is emitted
reload_rules(call, ub_crashes) ==
  /\ AfterLoad([op |-> "reload"] @@ call, load_rules(rules_dirs.dirs, disk, ub_crashes))
  /\ UNCHANGED <<rules_dirs, disk>>

\* the body of on_dir_monitor_changed, whatever the notification came from
MonitorChanged(file, event_type, ub_crashes) ==
  /\ pc = "idle"
  /\ rules_dirs.dirs # <<>>
  /\ IF file # <<>> /\ MonitorAccepts(file[1], event_type)
     THEN reload_rules(MonitorCall(file, event_type), ub_crashes)
     ELSE /\ last' = [op |-> "ignored", changed |-> FALSE]
                     @@ MonitorCall(file, event_type)
          /\ UNCHANGED <<rules_dirs, disk, policy, pc>>
  /\ UNCHANGED <<reload, reader>>

\* on_dir_monitor_changed (monitor, file, other_file, event_type, authority),
\* the handler setup_file_monitors connects to the monitor of each configured
\* directory, called with any file and event; file is <<>> (NULL) or <<name>>
on_dir_monitor_changed(file, event_type, ub_crashes) ==
  /\ MonitorChanged(file, event_type, ub_crashes)
  /\ UNCHANGED pending

(***************************************************************************)
(* The rule files the evaluator is checked on: one file under test (a rule *)
(* under test followed by catch-all rules), optionally after a file with   *)
(* admin rules only and before a catch-all file.                           *)
(***************************************************************************)
EmptyFn == [x \in {} |-> x]

\* a key/value line of a group when o = <<v>>, no line when o = <<>>
Opt(key, o) == IF o = <<>> THEN EmptyFn ELSE (key :> Val(o[1]))

grp_r == <<"r">>
grp_t == <<"t">>
str_bogus == <<"x">>

\* the groups that vary the constraints of a rule whose action is "ab"
ConstraintVariantGroups ==
  {Opt("Actions", << <<act_ab>> >>) @@ Opt("SubjectActive", a)
     @@ Opt("SubjectLocal", l) @@ Opt("InUnixGroups", g) @@ Opt("InUserNames", n)
     @@ Opt("Result", r) @@ Opt("ResultInverse", i) :
       a \in {<<>>, <<TRUE>>}, l \in {<<>>, <<TRUE>>},
       g \in {<<>>, << <<POLICY_MATCH_WHEEL>> >>,
              << << <<"1", "1">>, <<" ", "w", "h", "e", "e", "l">> >> >>},
       n \in {<<>>, << <<usr_u, <<" ", "x">> >> >>},
       r \in {<<>>, <<str_yes>>},
       i \in {<<>>, <<str_no>>, <<str_bogus>>}}

\* the groups that vary the action patterns of a rule
ActionVariantGroups ==
  {Opt("Actions", x) @@ Opt("ActionContains", c) @@ Opt("SubjectLocal", <<TRUE>>)
     @@ Opt("Result", <<str_yes>>) @@ Opt("ResultInverse", <<str_auth_admin>>) :
       x \in {<<>>, << <<POLICY_MATCH_ALL>> >>, << << <<" ", "a", "b">> >> >>,
              << << <<"a", "*">> >> >>, << <<act_b, act_ab>> >>},
       c \in {<<>>, << << <<"a">> >> >>, << << <<" ", "a">> >> >>}}

\* the groups of a rule whose action is "ab" and that names net groups
NetGroupVariantGroups ==
  {Opt("Actions", << <<act_ab>> >>) @@ Opt("InNetGroups", ng) @@ Opt("InUserNames", n)
     @@ Opt("Result", <<str_yes>>) @@ Opt("ResultInverse", i) :
       ng \in {<< <<net_n>> >>, << <<usr_u, <<" ", "w", "h", "e", "e", "l">> >> >>},
       n \in {<<>>, << <<usr_u>> >>},
       i \in {<<>>, <<str_no>>}}

FocusGroups == ConstraintVariantGroups \cup ActionVariantGroups \cup NetGroupVariantGroups

\* the catch-all rule that follows the rule under test
TailGroup ==
  Opt("Actions", << <<POLICY_MATCH_ALL>> >>) @@ Opt("Result", <<str_auth_self>>)

\* the key file of the file under test: rule r, then k times rule t
FocusFile(g, k) ==
  [loads |-> TRUE,
   groups |-> (POLICY_SECTION :> ("Rules" :>
                  Val(<<grp_r>> \o [i \in 1..k |-> grp_t])))
              @@ (grp_r :> g) @@ (grp_t :> TailGroup)]

\* a file that answers every request with "no"
LastFile ==
  [loads |-> TRUE,
   groups |-> (POLICY_SECTION :> ("Rules" :> Val(<<grp_r>>)))
              @@ (grp_r :> (Opt("Actions", << <<POLICY_MATCH_ALL>> >>)
                            @@ Opt("Result", <<str_no>>)))]

\* a file with an admin rule and no normal rule
AdminOnlyFile ==
  [loads |-> TRUE,
   groups |-> (POLICY_SECTION :> ("AdminRules" :> Val(<<grp_r>>)))
              @@ (grp_r :> Opt("InUserNames", << <<usr_u>> >>))]

Letters == <<"a", "b", "c", "d", "e">>

\* the i-th rule file name: a.keyrules, b.keyrules, ...
FileName(i) == <<Letters[i]>> \o RULES_SUFFIX

\* a directory holding the key files kfs under the names a.keyrules, ...
DirOf(kfs) ==
  [opens |-> TRUE, reversed |-> FALSE,
   files |-> [n \in {FileName(i) : i \in 1..Len(kfs)} |->
                kfs[CHOOSE i \in 1..Len(kfs) : FileName(i) = n]]]

\* the shapes of the rule set under test: k catch-all rules after the rule
\* under test, or a file before (pre) or after (suf) the file under test
EvalShapes ==
  {sh \in [k : 0..(MaxRules - 1), pre : BOOLEAN, suf : BOOLEAN] :
     /\ 1 + (IF sh.pre THEN 1 ELSE 0) + (IF sh.suf THEN 1 ELSE 0) <= MaxFiles
     /\ sh.k = 0 \/ (~sh.pre /\ ~sh.suf)}

EvalFileLists ==
  {(IF sh.pre THEN <<AdminOnlyFile>> ELSE <<>>) \o <<FocusFile(g, sh.k)>>
     \o (IF sh.suf THEN <<LastFile>> ELSE <<>>) :
       g \in FocusGroups, sh \in EvalShapes}

EvalDisks == {(dir_etc :> DirOf(kfs)) : kfs \in EvalFileLists}

\* the authority after policy_file_test returned t
Tested(action_id, context, t) ==
  /\ last' = [op |-> "test", action_id |-> action_id, context |-> context,
              policy |-> policy, trace |-> t.trace, response |-> t.response]
  /\ policy' = t.files

\* policy_file_test on a prepared context
TestOn(action_id, context) ==
  Tested(action_id, context, policy_file_test(policy, 1, action_id, context))

\* policy_file_test as check_authorization_sync calls it, on the context of a
\* process subject, for an authority that has loaded at least one file
PolicyFileTest(uid, local, active, action_id) ==
  /\ pc = "idle"
  /\ policy # <<>>
  /\ TestOn(action_id,
            prepare_context([kind |-> "unix-process", process_found |-> TRUE,
                             uid |-> uid], local, active).context)
  /\ UNCHANGED <<rules_dirs, disk, pc, reload, reader, pending>>

Uids == 1..4

InitEval ==
  /\ rules_dirs = [set |-> TRUE, dirs |-> <<dir_etc>>]
  /\ disk \in EvalDisks
  /\ policy = <<>>
  /\ pc = "new"
  /\ last = [op |-> "none"]
  /\ reload = NoReload
  /\ reader = NoReader
  /\ pending = <<>>

NextEval ==
  \/ \E ub_crashes \in BOOLEAN : Constructed(ub_crashes)
  \/ \E uid \in Uids, local \in BOOLEAN, active \in BOOLEAN, action_id \in ActionIds :
       PolicyFileTest(uid, local, active, action_id)

SpecEval == InitEval /\ [][NextEval]_vars

(***************************************************************************)
(* check_authorization_sync, on every subject and implicit authorization,  *)
(* for an authority with no file, or with one file of one rule.            *)
(***************************************************************************)
CheckFileLists ==
  {<<>>, <<AdminOnlyFile>>} \cup {<<FocusFile(g, 0)>> : g \in ActionVariantGroups}

CheckDisks == {(dir_etc :> DirOf(kfs)) : kfs \in CheckFileLists}

InitCheck ==
  /\ rules_dirs = [set |-> TRUE, dirs |-> <<dir_etc>>]
  /\ disk \in CheckDisks
  /\ policy = <<>>
  /\ pc = "new"
  /\ last = [op |-> "none"]
  /\ reload = NoReload
  /\ reader = NoReader
  /\ pending = <<>>

NextCheck ==
  \/ \E ub_crashes \in BOOLEAN : Constructed(ub_crashes)
  \/ \E subject \in Subjects, local \in BOOLEAN, active \in BOOLEAN,
        action_id \in ActionIds, implicit \in Implicits :
       CheckAuthorizationSync(subject, local, active, action_id, implicit)

SpecCheck == InitCheck /\ [][NextCheck]_vars

(***************************************************************************)
(* get_admin_auth_identities, on rule files whose admin rules list valid   *)
(* and invalid identities, the wheel placeholder, padded and repeated      *)
(* entries.                                                                *)
(***************************************************************************)
\* the groups that vary the identity lists of an admin rule
AdminVariantGroups ==
  {Opt("InUnixGroups", g) @@ Opt("InUserNames", n) @@ Opt("InNetGroups", x) :
     g \in {<<>>, << <<POLICY_MATCH_WHEEL>> >>,
            << << <<" ", "w", "h", "e", "e", "l">>, grp_nogrp >> >>},
     n \in {<<>>, << <<usr_u, usr_u>> >>, << <<usr_nobody>> >>,
            << << <<" ", "v">>, usr_nobody, usr_u >> >>},
     x \in {<<>>, << <<net_n>> >>}}

\* the admin rule that follows the rule under test
AdminTailGroup == Opt("InUserNames", << <<usr_x, usr_u>> >>)

\* the key file of the admin file under test: admin rule r, then k times rule
\* t, and a normal rule when nrm
AdminFile(g, k, nrm) ==
  [loads |-> TRUE,
   groups |-> (POLICY_SECTION :>
                 (("AdminRules" :> Val(<<grp_r>> \o [i \in 1..k |-> grp_t]))
                  @@ (IF nrm THEN ("Rules" :> Val(<<grp_t>>)) ELSE EmptyFn)))
              @@ (grp_r :> g) @@ (grp_t :> (AdminTailGroup @@ TailGroup))]

\* the shapes of the rule set the harvest is checked on
AdminShapes ==
  {sh \in [k : 0..(MaxRules - 1), nrm : BOOLEAN, pre : BOOLEAN, suf : BOOLEAN] :
     /\ 1 + (IF sh.pre THEN 1 ELSE 0) + (IF sh.suf THEN 1 ELSE 0) <= MaxFiles
     /\ sh.k = 0 \/ (~sh.pre /\ ~sh.suf)
     /\ sh.nrm => (sh.k = 0 /\ ~sh.pre /\ ~sh.suf)}

AdminFileLists ==
  {<<>>, <<LastFile>>}
  \cup {(IF sh.pre THEN <<LastFile>> ELSE <<>>) \o <<AdminFile(g, sh.k, sh.nrm)>>
          \o (IF sh.suf THEN <<AdminOnlyFile>> ELSE <<>>) :
            g \in AdminVariantGroups, sh \in AdminShapes}

AdminDisks == {(dir_etc :> DirOf(kfs)) : kfs \in AdminFileLists}

InitAdmin ==
  /\ rules_dirs = [set |-> TRUE, dirs |-> <<dir_etc>>]
  /\ disk \in AdminDisks
  /\ policy = <<>>
  /\ pc = "new"
  /\ last = [op |-> "none"]
  /\ reload = NoReload
  /\ reader = NoReader
  /\ pending = <<>>

NextAdmin ==
  \/ \E ub_crashes \in BOOLEAN : Constructed(ub_crashes)
  \/ \E subject \in Subjects, local \in BOOLEAN, active \in BOOLEAN,
        action_id \in ActionIds :
       GetAdminAuthIdentities(subject, local, active, action_id)

SpecAdmin == InitAdmin /\ [][NextAdmin]_vars

(***************************************************************************)
(* The life of the authority: construction with a list of rule             *)
(* directories (or none), over rule files good and bad, then the           *)
(* notifications of the directory monitors.                                *)
(***************************************************************************)
RECURSIVE SeqsUpTo(_, _)
\* the sequences over S of length at most n
SeqsUpTo(S, n) ==
  IF n = 0 THEN {<<>>}
  ELSE SeqsUpTo(S, n - 1)
       \cup {<<x>> \o q : x \in S, q \in {r \in SeqsUpTo(S, n - 1) : Len(r) = n - 1}}

\* the values of the construct-only property "rules-dirs": unset, or a list
DirLists ==
  {[set |-> FALSE, dirs |-> <<>>]}
  \cup {[set |-> TRUE, dirs |-> q] : q \in SeqsUpTo({dir_etc, dir_usr}, MaxDirs)}

\* a one-rule file: the group g as its only normal rule
OneRuleFile(g) ==
  [loads |-> TRUE,
   groups |-> (POLICY_SECTION :> ("Rules" :> Val(<<grp_r>>))) @@ (grp_r :> g)]

\* a file GKeyFile cannot parse
BadSyntaxFile == [loads |-> FALSE, groups |-> EmptyFn]

\* "[Policy]" alone: neither Rules nor AdminRules
NoRulesFile == [loads |-> TRUE, groups |-> (POLICY_SECTION :> EmptyFn)]

\* Rules names a group the file does not have
MissingGroupFile ==
  [loads |-> TRUE, groups |-> (POLICY_SECTION :> ("Rules" :> Val(<<grp_r>>)))]

\* Rules itself is a value GKeyFile cannot return as a list
BadRulesListFile == [loads |-> TRUE, groups |-> (POLICY_SECTION :> ("Rules" :> Bad))]

\* Rules is there and empty
EmptyRulesFile == [loads |-> TRUE, groups |-> (POLICY_SECTION :> ("Rules" :> Val(<<>>)))]

GoodFile == OneRuleFile(Opt("Actions", << <<act_ab>> >>) @@ Opt("Result", <<str_yes>>))

\* the key files a rule directory may hold
Catalogue ==
  {GoodFile, LastFile, AdminOnlyFile, BadSyntaxFile, NoRulesFile, MissingGroupFile,
   BadRulesListFile, EmptyRulesFile,
   OneRuleFile("Actions" :> Bad),
   OneRuleFile(Opt("Actions", << <<POLICY_MATCH_ALL>> >>) @@ ("SubjectLocal" :> Bad)),
   OneRuleFile(Opt("Actions", << <<POLICY_MATCH_ALL>> >>) @@ Opt("Result", <<str_bogus>>)),
   OneRuleFile(Opt("Actions", << <<POLICY_MATCH_ALL>> >>) @@ Opt("Result", <<str_yes>>)
               @@ Opt("ResultInverse", <<str_bogus>>))}

\* a directory with the key file o[1] under the name, none when o = <<>>
OptFile(name, o) == IF o = <<>> THEN EmptyFn ELSE (name :> o[1])

\* the rule directories: /etc holds a.keyrules (anything of the catalogue) and
\* b.keyrules, read in either order; /usr holds a.keyrules, and opens or not
LoadDisks ==
  {(dir_etc :> [opens |-> TRUE, reversed |-> er,
                files |-> OptFile(FileName(1), ea) @@ OptFile(FileName(2), eb)])
   @@ (dir_usr :> [opens |-> uo, reversed |-> FALSE,
                   files |-> OptFile(FileName(1), ua)]) :
     ea \in {<<>>} \cup {<<kf>> : kf \in Catalogue},
     eb \in {<<>>, <<GoodFile>>},
     ua \in {<<>>, <<LastFile>>},
     er \in BOOLEAN, uo \in BOOLEAN}

\* the base names a monitor reports
MonitoredNames ==
  {FileName(1), <<".">> \o FileName(1), <<"#">> \o FileName(1), <<"a", ".", "t", "x", "t">>}

Init ==
  /\ rules_dirs \in DirLists
  /\ disk \in LoadDisks
  /\ policy = <<>>
  /\ pc = "new"
  /\ last = [op |-> "none"]
  /\ reload = NoReload
  /\ reader = NoReader
  /\ pending = <<>>

Next ==
  \/ \E ub_crashes \in BOOLEAN : Constructed(ub_crashes)
  \/ \E file \in {<<>>} \cup {<<n>> : n \in MonitoredNames},
        event_type \in FileMonitorEvents, ub_crashes \in BOOLEAN :
       on_dir_monitor_changed(file, event_type, ub_crashes)

Spec == Init /\ [][Next]_vars

(***************************************************************************)
(* Properties of the evaluator (SpecEval).  In a state with                *)
(* last.op = "test", last.policy is the rule set the call was made on,     *)
(* last.trace the files and rules the call visited.                        *)
(***************************************************************************)
\* the verdict the normal chain of the f-th file yields by itself
FileVerdict(files, f, action_id, context) ==
  IF files[f].normal = <<>> THEN UNKNOWN
  ELSE policy_test(files[f].normal, 1, action_id, context).response

\* the files of the call whose normal chain yields a verdict other than Unknown
DecidingFiles ==
  {f \in 1..Len(last.policy) :
     FileVerdict(last.policy, f, last.action_id, last.context) # UNKNOWN}

\* C1: policy_file_test returns the verdict of the first file, in chain order,
\* whose normal chain yields a verdict other than Unknown, and Unknown exactly
\* when the normal chain of every file yields Unknown
C1_FirstDecidingFileWins ==
  last.op = "test" =>
    /\ DecidingFiles # {} =>
         last.response = FileVerdict(last.policy, FirstOf(DecidingFiles),
                                     last.action_id, last.context)
    /\ (last.response = UNKNOWN) <=> (DecidingFiles = {})

\* C1 happens: the first of two files yields Unknown and the second one decides
C1_SecondFileDecides ==
  /\ last.op = "test"
  /\ Len(last.policy) = 2
  /\ last.policy[1].normal # <<>>
  /\ FileVerdict(last.policy, 1, last.action_id, last.context) = UNKNOWN
  /\ last.response = NOT_AUTHORIZED

\* the rules of the call: file f, rule k of its normal chain
RulesOfCall ==
  UNION {{<<f, k>> : k \in 1..Len(last.policy[f].normal)} : f \in 1..Len(last.policy)}

\* the rule fk of the rule set the call was made on
RuleAt(fk) == last.policy[fk[1]].normal[fk[2]]

\* the verdict of policy_test started at the rule fk
VerdictFrom(fk) ==
  policy_test(last.policy[fk[1]].normal, fk[2], last.action_id, last.context).response

\* the verdict of the rest of the chain after the rule fk, Unknown if it is last
VerdictOfRest(fk) ==
  IF fk[2] < Len(last.policy[fk[1]].normal) THEN VerdictFrom(<<fk[1], fk[2] + 1>>)
  ELSE UNKNOWN

\* the steps of the call: <<i, j>> is the j-th rule visited in the i-th file visited
StepsOfCall ==
  UNION {{<<i, j>> : j \in 1..Len(last.trace[i].rules)} : i \in 1..Len(last.trace)}

StepAt(ij) == last.trace[ij[1]].rules[ij[2]]

\* the rule a step was run on
RuleOfStep(ij) == <<last.trace[ij[1]].file, StepAt(ij).rule>>

\* the present non-action constraints of rule p that fail against the context
FailingConstraints(p, context) ==
  {c \in {PF_CONSTRAINT_SUBJECT_ACTIVE, PF_CONSTRAINT_SUBJECT_LOCAL,
          PF_CONSTRAINT_UNIX_GROUPS, PF_CONSTRAINT_UNIX_NAMES} :
     /\ HasBit(p, c)
     /\ CASE c = PF_CONSTRAINT_SUBJECT_ACTIVE ->
               context.subject_is_active # p.require_active
          [] c = PF_CONSTRAINT_SUBJECT_LOCAL ->
               context.subject_is_local # p.require_local
          [] c = PF_CONSTRAINT_UNIX_GROUPS ->
               ~\E i \in 1..Len(p.unix_groups), j \in 1..Len(context.groups) :
                  WheelSubst(g_strstrip(p.unix_groups[i])) = context.groups[j]
          [] OTHER ->
               ~\E i \in 1..Len(p.unix_names) :
                  g_strstrip(p.unix_names[i]) = context.username}

\* C2: a rule that declares ResultInverse, whose action matches and one of
\* whose present non-action constraints fails, makes policy_test return its
\* inverse verdict at once, with no later rule consulted
C2_InverseOnAnyFailedConstraint ==
  last.op = "test" =>
    \A ij \in StepsOfCall :
      (/\ HasBit(RuleAt(RuleOfStep(ij)), PF_CONSTRAINT_RESULT_INVERSE)
       /\ StepAt(ij).id_matched
       /\ FailingConstraints(RuleAt(RuleOfStep(ij)), last.context) # {})
      => /\ StepAt(ij).returned
         /\ VerdictFrom(RuleOfStep(ij)) = RuleAt(RuleOfStep(ij)).response_inverse

\* C2 fails so: the action matched, SubjectActive was the constraint that
\* failed, ResultInverse is declared, and the test went on to the next rule
C2_ActiveFailureFallsThrough ==
  /\ last.op = "test"
  /\ \E ij \in StepsOfCall :
       /\ HasBit(RuleAt(RuleOfStep(ij)), PF_CONSTRAINT_RESULT_INVERSE)
       /\ RuleAt(RuleOfStep(ij)).response_inverse = NOT_AUTHORIZED
       /\ StepAt(ij).stage = "active"
       /\ ~StepAt(ij).returned
  /\ last.response = AUTHENTICATION_REQUIRED

\* whether the action test of rule p passes for action_id, as policy_test runs it
ActionTestPasses(p, action_id) ==
  ActionsHit(p, action_id) > 0 \/ ActionContainsHit(p, action_id) > 0

\* C3: a rule whose action test fails contributes no verdict: policy_test
\* started at it returns what the rest of the chain returns, Unknown if it is
\* the last rule, whatever its Result, ResultInverse and other constraints
C3_UnmatchedActionContributesNothing ==
  last.op = "test" =>
    \A fk \in RulesOfCall :
      ~ActionTestPasses(RuleAt(fk), last.action_id) => VerdictFrom(fk) = VerdictOfRest(fk)

\* C3 happens: a rule with Result and ResultInverse and neither Actions nor
\* ActionContains was tested, and the call returned the verdict of the rule
\* after it
C3_RuleWithoutActionsPassedOver ==
  /\ last.op = "test"
  /\ \E ij \in StepsOfCall :
       /\ StepAt(ij).stage = "action"
       /\ RuleAt(RuleOfStep(ij)).constraints \cap
            {PF_CONSTRAINT_ACTIONS, PF_CONSTRAINT_ACTION_CONTAINS} = {}
       /\ {PF_CONSTRAINT_RESULT, PF_CONSTRAINT_RESULT_INVERSE}
            \subseteq RuleAt(RuleOfStep(ij)).constraints
       /\ RuleOfStep(ij)[2] < Len(last.policy[RuleOfStep(ij)[1]].normal)
  /\ last.response = AUTHENTICATION_REQUIRED

\* the action test as stated: some Actions entry, read through Norm, equals
\* the action id or is "*", or some ActionContains entry, read through Norm, is
\* a substring of the action id
StatedActionTest(p, action_id, Norm(_)) ==
  \/ /\ HasBit(p, PF_CONSTRAINT_ACTIONS)
     /\ \E i \in 1..Len(p.actions) :
          Norm(p.actions[i]) = action_id \/ Norm(p.actions[i]) = <<"*">>
  \/ /\ HasBit(p, PF_CONSTRAINT_ACTION_CONTAINS)
     /\ \E i \in 1..Len(p.action_contains) :
          strstr(action_id, Norm(p.action_contains[i]))

\* an entry as it is stored
AsStored(e) == e

\* C4, as amended: the action test of a rule passes iff some Actions entry,
\* stripped of leading and trailing white space, equals the action id or is
\* "*", or some ActionContains entry, so stripped, is a substring of the action
\* id; an entry that merely contains '*' is compared literally
C4_ActionTestOnStrippedEntries ==
  last.op = "test" =>
    \A ij \in StepsOfCall :
      StepAt(ij).id_matched
        <=> StatedActionTest(RuleAt(RuleOfStep(ij)), last.action_id, g_strstrip)

\* C4, as stated: the entries are compared as they are stored
C4_ActionTestOnStoredEntries ==
  last.op = "test" =>
    \A ij \in StepsOfCall :
      StepAt(ij).id_matched
        <=> StatedActionTest(RuleAt(RuleOfStep(ij)), last.action_id, AsStored)

\* C4 happens: the Actions entry " ab" matched the action id "ab"
C4_PaddedEntryMatched ==
  /\ last.op = "test"
  /\ last.action_id = act_ab
  /\ \E ij \in StepsOfCall :
       /\ StepAt(ij).id_matched
       /\ RuleAt(RuleOfStep(ij)).actions = << <<" ", "a", "b">> >>
       /\ ~HasBit(RuleAt(RuleOfStep(ij)), PF_CONSTRAINT_ACTION_CONTAINS)

(***************************************************************************)
(* Properties of check_authorization_sync (SpecCheck).                     *)
(***************************************************************************)
\* the bus-name-to-process lookup of the call failed
BusLookupFailed == last.subject.kind = "system-bus-name" /\ ~last.subject.process_found

\* the user of the call has no entry in the user database
NoPasswdEntry == ~BusLookupFailed /\ ~Passwd(last.subject.uid).found

NoRuleAnswers ==
  \/ last.policy = <<>>
  \/ policy_file_test(last.policy, 1, last.action_id, last.context).response = UNKNOWN

\* C6: for every rule set, the one without files included, when the context is
\* prepared and no rule yields a verdict other than Unknown,
\* check_authorization_sync completes and returns the implicit default
C6_ImplicitWhenNoRuleAnswers ==
  (last.op = "check" /\ last.prepared /\ NoRuleAnswers)
    => last.completed /\ last.ret = last.implicit

\* C6 fails so: no file is loaded, the context was prepared, and the process
\* died in policy_file_test
C6_DiesOnEmptyRuleSet ==
  /\ last.op = "check"
  /\ last.prepared
  /\ last.policy = <<>>
  /\ ~last.completed
  /\ pc = "crashed"

(***************************************************************************)
(* Properties of get_admin_auth_identities (SpecAdmin).                    *)
(***************************************************************************)
RECURSIVE ValidIdentities(_, _)
\* the identities of the valid entries of a list, in list order
ValidIdentities(list, id_prefix) ==
  IF list = <<>> THEN <<>>
  ELSE (LET i == polkit_identity_from_string(id_prefix, WheelSubst(g_strstrip(Head(list))))
        IN  IF i.err THEN <<>> ELSE <<i.identity>>)
       \o ValidIdentities(Tail(list), id_prefix)

\* groups, then users, then netgroups of one rule
IdentitiesOfRule(p) ==
  (IF HasBit(p, PF_CONSTRAINT_UNIX_GROUPS)
   THEN ValidIdentities(p.unix_groups, "unix-group") ELSE <<>>)
  \o (IF HasBit(p, PF_CONSTRAINT_UNIX_NAMES)
      THEN ValidIdentities(p.unix_names, "unix-user") ELSE <<>>)
  \o (IF HasBit(p, PF_CONSTRAINT_NET_GROUPS)
      THEN ValidIdentities(p.net_groups, "unix-netgroup") ELSE <<>>)

RECURSIVE IdentitiesOfChain(_)
IdentitiesOfChain(chain) ==
  IF chain = <<>> THEN <<>>
  ELSE IdentitiesOfRule(Head(chain)) \o IdentitiesOfChain(Tail(chain))

RECURSIVE IdentitiesOfFiles(_)
\* the concatenation over the files, over their admin rules, of the identities
\* of each rule
IdentitiesOfFiles(files) ==
  IF files = <<>> THEN <<>>
  ELSE IdentitiesOfChain(Head(files).admin) \o IdentitiesOfFiles(Tail(files))

\* C7: get_admin_auth_identities never returns the empty list; when nothing is
\* harvested, and whenever context preparation fails, it returns the list of
\* the one identity of uid 0
C7_NeverEmptyRootFallback ==
  last.op = "admin" =>
    /\ last.ret # <<>>
    /\ ~last.prepared => last.ret = <<RootIdentity>>
    /\ IdentitiesOfFiles(last.policy) = <<>> => last.ret = <<RootIdentity>>

\* C7 happens: context preparation failed on a rule set with valid admin
\* identities, and the call returned the one identity of uid 0
C7_RootAfterContextFailure ==
  /\ last.op = "admin"
  /\ ~last.prepared
  /\ IdentitiesOfFiles(last.policy) # <<>>
  /\ last.ret = <<RootIdentity>>

\* C8: when the context is prepared and an entry is valid, the list returned
\* is the concatenation, over the files and over their admin rules in chain
\* order, of the valid InUnixGroups, InUserNames and InNetGroups entries of
\* each rule in list order, repetitions kept and invalid entries dropped; it
\* is a function of the admin rules alone
C8_HarvestInChainOrder ==
  (last.op = "admin" /\ last.prepared /\ IdentitiesOfFiles(last.policy) # <<>>)
    => last.ret = IdentitiesOfFiles(last.policy)

\* C8 happens: two files were harvested, an identity is returned twice, an
\* invalid entry was dropped, and a group comes before a user of the same rule
C8_RepeatedAndDroppedEntries ==
  /\ last.op = "admin"
  /\ last.prepared
  /\ Len(last.policy) = 2
  /\ \E i, j \in 1..Len(last.ret) : i < j /\ last.ret[i] = last.ret[j]
  /\ last.ret[1].kind = "unix-group"
  /\ last.ret[2].kind = "unix-user"
  /\ \E f \in 1..Len(last.policy) :
       /\ last.policy[f].admin # <<>>
       /\ Len(last.policy[f].admin[1].unix_groups) = 2
       /\ last.policy[f].admin[1].unix_groups[2] = grp_nogrp

(***************************************************************************)
(* Properties of the loader (Spec).  In a state with last.op "load" or     *)
(* "reload", last.linked lists the paths the chain `policy' was linked     *)
(* from, in chain order.                                                   *)
(***************************************************************************)
Loaded == last.op \in {"load", "reload"}

\* the paths of the files in the directories that are configured and open
PathsOnDisk ==
  UNION {{PathOf(rules_dirs.dirs[n], nm) : nm \in DOMAIN disk[rules_dirs.dirs[n]].files} :
           n \in {m \in 1..Len(rules_dirs.dirs) : disk[rules_dirs.dirs[m]].opens}}

\* those of them that are rule files and compile
CompilablePaths ==
  {path \in PathsOnDisk :
     /\ g_str_has_suffix(BaseName(path), RULES_SUFFIX)
     /\ policy_file_new_from_path(KeyFileAt(disk, path)).tag = "file"}

\* the place of a path in the chain, 0 when it is not in it
PlaceOf(path) == FirstOf({i \in 1..Len(last.linked) : last.linked[i] = path})

\* two compilable files of the same base name in two different configured
\* directories: <<m, n, name>>, the directories by their place in the list
SameNamePairs ==
  {t \in (1..Len(rules_dirs.dirs)) \X (1..Len(rules_dirs.dirs))
         \X {FileName(i) : i \in 1..Len(Letters)} :
     /\ rules_dirs.dirs[t[1]] # rules_dirs.dirs[t[2]]
     /\ PathOf(rules_dirs.dirs[t[1]], t[3]) \in CompilablePaths
     /\ PathOf(rules_dirs.dirs[t[2]], t[3]) \in CompilablePaths}

\* C9, as amended: of two compilable files of the same base name in two
\* different directories, both are in the chain a completed load leaves, and
\* the one whose full path is the smaller in byte order comes first, wherever
\* its directory stands in the configured list
C9_SameNameOrderedByPath ==
  (Loaded /\ last.tag = "done") =>
    \A t \in SameNamePairs :
      LET a == PathOf(rules_dirs.dirs[t[1]], t[3])
          b == PathOf(rules_dirs.dirs[t[2]], t[3])
      IN  /\ PlaceOf(a) > 0
          /\ PlaceOf(b) > 0
          /\ policy[PlaceOf(a)] = policy_file_new_from_path(KeyFileAt(disk, a)).file
          /\ g_strcmp0(a, b) < 0 => PlaceOf(a) < PlaceOf(b)

\* C9, as stated: the file of the directory that is earlier in the configured
\* list comes first
C9_SameNameOrderedByDirectoryPriority ==
  (Loaded /\ last.tag = "done") =>
    \A t \in SameNamePairs :
      t[1] < t[2] =>
        /\ PlaceOf(PathOf(rules_dirs.dirs[t[1]], t[3])) > 0
        /\ PlaceOf(PathOf(rules_dirs.dirs[t[2]], t[3])) > 0
        /\ PlaceOf(PathOf(rules_dirs.dirs[t[1]], t[3]))
             < PlaceOf(PathOf(rules_dirs.dirs[t[2]], t[3]))

\* C9 happens: /usr is configured before /etc, both hold a compilable
\* a.keyrules, and the chain starts with the one of /etc
C9_EtcFirstThoughConfiguredLast ==
  /\ Loaded
  /\ last.tag = "done"
  /\ rules_dirs.dirs = <<dir_usr, dir_etc>>
  /\ <<1, 2, FileName(1)>> \in SameNamePairs
  /\ PlaceOf(PathOf(dir_etc, FileName(1))) = 1
  /\ PlaceOf(PathOf(dir_usr, FileName(1))) = 2

\* no directory is configured twice
DirsDistinct ==
  \A m, n \in 1..Len(rules_dirs.dirs) : m # n => rules_dirs.dirs[m] # rules_dirs.dirs[n]

\* C10: a file that yields no RuleFile is logged and skipped: load_rules runs
\* to completion and links every file that compiles
C10_BadFileSkippedLoadCompletes ==
  (Loaded /\ DirsDistinct) =>
    /\ last.tag = "done"
    /\ {last.linked[i] : i \in 1..Len(last.linked)} = CompilablePaths

\* C10 fails so: /etc alone is configured, its a.keyrules declares neither Rules
\* nor AdminRules, its b.keyrules compiles, and the process died in load_rules
C10_DiesOnFileWithoutRules ==
  /\ last.op = "load"
  /\ rules_dirs.dirs = <<dir_etc>>
  /\ DOMAIN disk[dir_etc].files = {FileName(1), FileName(2)}
  /\ disk[dir_etc].files[FileName(1)] = NoRulesFile
  /\ last.tag = "crash"
  /\ pc = "crashed"

(***************************************************************************)
(* Properties of the rule compiler, on the files a load compiles (Spec).   *)
(***************************************************************************)
\* a string that, trimmed and lower-cased, is a verdict name
RecognisedVerdict(s) ==
  g_strstrip(g_ascii_strdown(s)) \in {str_no, str_yes, str_auth_self, str_auth_admin}

\* the groups of a key file that its Rules or AdminRules list names
NamedGroups(kf) ==
  {g \in DOMAIN kf.groups :
     \E section \in {"Rules", "AdminRules"} :
       /\ g_key_file_has_key(kf, POLICY_SECTION, section)
       /\ ~kf.groups[POLICY_SECTION][section].err
       /\ \E i \in 1..Len(kf.groups[POLICY_SECTION][section].val) :
            g_strstrip(kf.groups[POLICY_SECTION][section].val[i]) = g}

\* a named group of the key file gives the key a string that is no verdict name
GivesUnrecognised(kf, key) ==
  /\ kf.loads
  /\ \E g \in NamedGroups(kf) :
       /\ key \in DOMAIN kf.groups[g]
       /\ ~kf.groups[g][key].err
       /\ ~RecognisedVerdict(kf.groups[g][key].val)

\* the rules of the active rule set, normal and admin
ActiveRules ==
  UNION {{policy[f].normal[k] : k \in 1..Len(policy[f].normal)}
         \cup {policy[f].admin[k] : k \in 1..Len(policy[f].admin)} :
           f \in 1..Len(policy)}

\* C11, as stated: a file with a named group whose Result or ResultInverse is
\* no verdict name yields no PolicyFile, and no rule of the active rule set
\* has a Result or ResultInverse present with the stored verdict UNKNOWN
C11_UnrecognisedVerdictFailsTheFile ==
  Loaded =>
    /\ \A path \in PathsOnDisk :
         (GivesUnrecognised(KeyFileAt(disk, path), "Result")
          \/ GivesUnrecognised(KeyFileAt(disk, path), "ResultInverse"))
           => PlaceOf(path) = 0
    /\ \A p \in ActiveRules :
         /\ HasBit(p, PF_CONSTRAINT_RESULT) => p.response # UNKNOWN
         /\ HasBit(p, PF_CONSTRAINT_RESULT_INVERSE) => p.response_inverse # UNKNOWN

\* C11 fails so: a.keyrules of /etc gives Result "yes" and ResultInverse "x",
\* the load links it, and its rule carries ResultInverse with the verdict UNKNOWN
C11_UnrecognisedInverseCompiled ==
  /\ Loaded
  /\ last.tag = "done"
  /\ rules_dirs.dirs = <<dir_etc>>
  /\ FileName(1) \in DOMAIN disk[dir_etc].files
  /\ GivesUnrecognised(disk[dir_etc].files[FileName(1)], "ResultInverse")
  /\ ~GivesUnrecognised(disk[dir_etc].files[FileName(1)], "Result")
  /\ PlaceOf(PathOf(dir_etc, FileName(1))) = 1
  /\ HasBit(policy[1].normal[1], PF_CONSTRAINT_RESULT_INVERSE)
  /\ policy[1].normal[1].response_inverse = UNKNOWN
  /\ policy[1].normal[1].response = AUTHORIZED

(***************************************************************************)
(* The reload step by step, next to a request on another thread.           *)
(* reload_rules and the requests take no lock and no reference on the rule *)
(* set: reload_rules frees the chain at priv->policy, and load_rules then  *)
(* builds the new chain in place, file by file, at the same pointer.  The  *)
(* chain at priv->policy has a generation number, stepped by every         *)
(* g_clear_pointer; a request remembers the generation of the chain it     *)
(* read the pointer of, and its chain is freed memory once the generation  *)
(* has moved on.                                                           *)
(***************************************************************************)
\* the most reloads a behaviour of SpecReload holds
MaxReloads == 2

\* g_dir_open fails for one of the directories
SomeDirFailsToOpen(dsk, dirs) ==
  \E n \in 1..Len(dirs) : dirs[n] \notin DOMAIN dsk \/ ~dsk[dirs[n]].opens

\* load_rules up to the second loop: the list `files', sorted
ReloadCollected(sorted, old) ==
  /\ policy' = <<>>
  /\ pc' = IF sorted.abort THEN "aborted" ELSE pc
  /\ reload' = [stage |-> "link", gen |-> reload.gen + 1, sorted |-> sorted.list,
                l |-> 1, linked |-> <<>>, old |-> old,
                io_failed |-> SomeDirFailsToOpen(disk, rules_dirs.dirs)]

\* on_dir_monitor_changed on a notification it accepts, up to the second loop of
\* load_rules: g_clear_pointer (&priv->policy, policy_file_free), then the
\* directories are read and the paths sorted
ReloadClear(file, event_type) ==
  /\ pc = "idle"
  /\ reload.stage = "none"
  /\ reload.gen < MaxReloads
  /\ MonitorAccepts(file, event_type)
  /\ ReloadCollected(SortCollected(CollectFiles(disk, rules_dirs.dirs, 1)), policy)
  /\ UNCHANGED <<rules_dirs, disk, last, reader, pending>>

\* one turn of the second loop of load_rules, c being what
\* policy_file_new_from_path returned for the file: "last->next = file" or
\* "priv->policy = file", the file is skipped, or the process dies
ReloadLinked(filename, c, ub_crashes) ==
  IF c.tag = "file"
  THEN /\ policy' = Append(policy, c.file)
       /\ reload' = [reload EXCEPT !.l = @ + 1, !.linked = Append(@, filename)]
       /\ UNCHANGED pc
  ELSE IF (c.tag = "ub" \/ CompileFailure(c.tag) = "ub") /\ ub_crashes
  THEN /\ pc' = "crashed"
       /\ UNCHANGED <<policy, reload>>
  ELSE /\ reload' = [reload EXCEPT !.l = @ + 1,
                                   !.io_failed = @ \/ c.tag = "null_err"]
       /\ UNCHANGED <<policy, pc>>

ReloadLink(ub_crashes) ==
  /\ pc = "idle"
  /\ reload.stage = "link"
  /\ reload.l <= Len(reload.sorted)
  /\ ReloadLinked(reload.sorted[reload.l],
                  policy_file_new_from_path(KeyFileAt(disk, reload.sorted[reload.l])),
                  ub_crashes)
  /\ UNCHANGED <<rules_dirs, disk, last, reader, pending>>

\* the end of load_rules ("Finished loading %d rules") and of reload_rules:
\* g_signal_emit_by_name (authority, "changed")
ReloadEmit ==
  /\ pc = "idle"
  /\ reload.stage = "link"
  /\ reload.l > Len(reload.sorted)
  /\ last' = [op |-> "reload", tag |-> "done", num_files |-> Len(reload.linked),
              linked |-> reload.linked, changed |-> TRUE, old |-> reload.old,
              active |-> policy, io_failed |-> reload.io_failed]
  /\ reload' = [NoReload EXCEPT !.gen = reload.gen]
  /\ UNCHANGED <<rules_dirs, disk, policy, pc, reader, pending>>

\* a request reads memory it must not (NULL, or a freed PolicyFile): the
\* build dies there or reads on and returns some verdict
ReaderUndefined(r) ==
  \E dies \in BOOLEAN, garbage \in Verdicts :
    /\ reader' = [r EXCEPT !.stage = "done",
                           !.response = IF dies THEN UNKNOWN ELSE garbage,
                           !.died = dies]
    /\ pc' = IF dies THEN "crashed" ELSE pc
    /\ UNCHANGED policy

\* the request once the context is prepared: it reads priv->policy
ReaderRead(kind, action_id, prep) ==
  IF ~prep.ok
  THEN /\ reader' = [stage |-> "done", kind |-> kind, prepared |-> FALSE]
       /\ UNCHANGED <<policy, pc>>
  ELSE IF policy = <<>> /\ kind = "check"
  THEN ReaderUndefined([stage |-> "walk", kind |-> kind, prepared |-> TRUE,
                        gen |-> reload.gen, during |-> reload.stage, read |-> policy,
                        f |-> 0, action_id |-> action_id, context |-> prep.context,
                        response |-> UNKNOWN, ret |-> <<>>, null |-> TRUE,
                        freed |-> FALSE, died |-> FALSE])
  ELSE /\ reader' = [stage |-> IF policy = <<>> THEN "done" ELSE "walk",
                     kind |-> kind, prepared |-> TRUE,
                     gen |-> reload.gen, during |-> reload.stage, read |-> policy,
                     f |-> IF policy = <<>> THEN 0 ELSE 1,
                     action_id |-> action_id, context |-> prep.context,
                     response |-> UNKNOWN, ret |-> <<>>, null |-> FALSE,
                     freed |-> FALSE, died |-> FALSE]
       /\ UNCHANGED <<policy, pc>>

\* check_authorization_sync ("check") or get_admin_auth_identities ("admin")
\* enters on another thread: prepare_context, then priv->policy is read
ReaderEnter(kind, subject, action_id) ==
  /\ pc = "idle"
  /\ reader.stage \in {"none", "done"}
  /\ ReaderRead(kind, action_id, prepare_context(subject, TRUE, TRUE))
  /\ UNCHANGED <<rules_dirs, disk, last, reload, pending>>

\* policy_file_test on the file the request is at, t being what policy_test
\* returned for its normal chain
ReaderTested(t) ==
  /\ policy' = [policy EXCEPT ![reader.f].normal = t.chain]
  /\ reader' = IF PassDownTheChain(t.response, reader.f < Len(policy))
               THEN [reader EXCEPT !.f = @ + 1]
               ELSE [reader EXCEPT !.stage = "done", !.response = t.response]
  /\ UNCHANGED pc

\* one turn of the loop of get_admin_auth_identities over the files
ReaderHarvested(ret) ==
  /\ policy' = [policy EXCEPT ![reader.f].admin =
                                 [k \in 1..Len(@) |-> HarvestedRule(@[k])]]
  /\ reader' = IF reader.f < Len(policy)
               THEN [reader EXCEPT !.f = @ + 1, !.ret = ret]
               ELSE [reader EXCEPT !.stage = "done", !.ret = ret]
  /\ UNCHANGED pc

\* the request dereferences the PolicyFile it is at
ReaderStep ==
  /\ pc = "idle"
  /\ reader.stage = "walk"
  /\ IF reader.gen # reload.gen
     THEN ReaderUndefined([reader EXCEPT !.freed = TRUE])
     ELSE IF reader.kind = "check"
     THEN ReaderTested(
            IF policy[reader.f].normal # <<>>
            THEN policy_test(policy[reader.f].normal, 1, reader.action_id,
                             reader.context)
            ELSE [response |-> UNKNOWN, chain |-> <<>>, trace |-> <<>>])
     ELSE ReaderHarvested(HarvestChain(reader.ret, policy[reader.f].admin, 1))
  /\ UNCHANGED <<rules_dirs, disk, last, reload, pending>>

\* the key files a.keyrules of the directory may hold while reloads go on
ReloadCatalogue == {GoodFile, AdminOnlyFile, BadSyntaxFile, NoRulesFile}

\* the directory /etc as it may stand at any time: it opens or not, and holds
\* a.keyrules and b.keyrules or not
ReloadDisks ==
  {(dir_etc :> [opens |-> o, reversed |-> FALSE,
                files |-> OptFile(FileName(1), ea) @@ OptFile(FileName(2), eb)]) :
     o \in BOOLEAN,
     ea \in {<<>>} \cup {<<kf>> : kf \in ReloadCatalogue},
     eb \in {<<>>, <<LastFile>>}}

\* the file system changes under the authority: the directory becomes
\* unreadable or readable, or one file is written or removed
DiskChange ==
  /\ pc = "idle"
  /\ reload.stage = "none"
  /\ disk' \in {d \in ReloadDisks :
                  /\ d # disk
                  /\ \/ d[dir_etc].files = disk[dir_etc].files
                     \/ /\ d[dir_etc].opens = disk[dir_etc].opens
                        /\ \E n \in {FileName(1), FileName(2)} :
                             \A m \in {FileName(1), FileName(2)} \ {n} :
                               /\ m \in DOMAIN d[dir_etc].files
                                    <=> m \in DOMAIN disk[dir_etc].files
                               /\ m \in DOMAIN d[dir_etc].files
                                    => d[dir_etc].files[m] = disk[dir_etc].files[m]}
  /\ UNCHANGED <<rules_dirs, policy, pc, last, reload, reader, pending>>

InitReload ==
  /\ rules_dirs = [set |-> TRUE, dirs |-> <<dir_etc>>]
  /\ disk \in ReloadDisks
  /\ policy = <<>>
  /\ pc = "new"
  /\ last = [op |-> "none"]
  /\ reload = NoReload
  /\ reader = NoReader
  /\ pending = <<>>

NextReload ==
  \/ \E ub_crashes \in BOOLEAN : Constructed(ub_crashes)
  \/ DiskChange
  \/ \E event_type \in {"CREATED", "DELETED", "CHANGES_DONE_HINT"} :
       ReloadClear(FileName(1), event_type)
  \/ \E ub_crashes \in BOOLEAN : ReloadLink(ub_crashes)
  \/ ReloadEmit
  \/ \E action_id \in ActionIds :
       ReaderEnter("check", [kind |-> "unix-process", process_found |-> TRUE, uid |-> 1],
                   action_id)
  \/ ReaderEnter("admin", [kind |-> "unix-process", process_found |-> TRUE, uid |-> 1],
                 act_ab)
  \/ ReaderStep

SpecReload == InitReload /\ [][NextReload]_vars

(***************************************************************************)
(* Properties of the reload (SpecReload).  While a reload is under way,    *)
(* reload.old is the rule set that was active when it began; in a state    *)
(* with last.op = "reload", last.old is that rule set and last.active the  *)
(* one the reload left.                                                    *)
(***************************************************************************)
\* the complete rule set a reload of the directories as they stand builds
NewRuleSet == load_rules(rules_dirs.dirs, disk, FALSE).policy

\* C12, as stated: at every step of a reload priv->policy is the complete rule
\* set of before the reload or the complete new one
C12_PointerIsWholeSnapshot ==
  (pc = "idle" /\ reload.stage # "none") => policy \in {reload.old, NewRuleSet}

\* C12 fails so: the rule set of before and the new one both hold two files,
\* the reload has linked the first of them, priv->policy is that one-file
\* chain, and a request has read it
C12_RequestReadsHalfBuiltChain ==
  /\ pc = "idle"
  /\ reload.stage = "link"
  /\ Len(reload.old) = 2
  /\ Len(NewRuleSet) = 2
  /\ Len(policy) = 1
  /\ reader.stage = "walk"
  /\ reader.during = "link"
  /\ reader.read = policy

\* C13, as stated: no request dereferences a PolicyFile that reload_rules has
\* freed
C13_NoRequestReadsFreedRuleSet ==
  (reader.stage = "done" /\ reader.prepared) => ~reader.freed

\* C13 fails so: check_authorization_sync read priv->policy with no reload
\* under way, passed the first file, a reload then freed the chain, and the
\* request dereferenced the second file
C13_RequestWalksFreedChain ==
  /\ reader.stage = "done"
  /\ reader.prepared
  /\ reader.kind = "check"
  /\ reader.during = "none"
  /\ Len(reader.read) = 2
  /\ reader.f = 2
  /\ reader.freed

\* C14, as stated: a reload that met an I/O failure (a directory that does not
\* open, a file that cannot be read) leaves the rule set of before active
C14_IoFailureKeepsPreviousRuleSet ==
  (last.op = "reload" /\ last.io_failed) => last.active = last.old

\* C14 fails so: two files were active, the directory could not be opened by
\* the reload, and no file is active after it
C14_EmptyAfterUnopenableDirectory ==
  /\ last.op = "reload"
  /\ last.io_failed
  /\ ~disk[dir_etc].opens
  /\ Len(last.old) = 2
  /\ last.active = <<>>
  /\ policy = <<>>
  /\ reload.stage = "none"

(***************************************************************************)
(* Properties of the constraint tests and of the verdict of a rule         *)
(* (SpecEval).                                                             *)
(***************************************************************************)
\* the steps of the call that ran the InUnixGroups test of their rule
GroupTestSteps ==
  {ij \in StepsOfCall :
     /\ HasBit(RuleAt(RuleOfStep(ij)), PF_CONSTRAINT_UNIX_GROUPS)
     /\ StepAt(ij).stage \in {"groups", "names", "end"}}

\* the group test as stated: some InUnixGroups entry, read through Norm and
\* with "%sudo%" replaced by the wheel group of the build, equals some group of
\* the context
StatedGroupTest(p, context, Norm(_)) ==
  \E i \in 1..Len(p.unix_groups), j \in 1..Len(context.groups) :
    (IF Norm(p.unix_groups[i]) = <<"%", "s", "u", "d", "o", "%">>
     THEN <<"w", "h", "e", "e", "l">>
     ELSE Norm(p.unix_groups[i])) = context.groups[j]

\* C15, as amended: the InUnixGroups test of a rule passes iff some entry,
\* stripped of leading and trailing white space and with "%sudo%" replaced by
\* the wheel group, equals some group of the context; for the list ["%sudo%"]
\* that is iff the context has the wheel group, and it fails with no groups
C15_GroupTestOnStrippedSubstitutedEntries ==
  last.op = "test" =>
    \A ij \in GroupTestSteps :
      /\ StepAt(ij).stage # "groups"
           <=> StatedGroupTest(RuleAt(RuleOfStep(ij)), last.context, g_strstrip)
      /\ RuleAt(RuleOfStep(ij)).unix_groups = << <<"%", "s", "u", "d", "o", "%">> >>
           => (StepAt(ij).stage # "groups"
                 <=> \E j \in 1..Len(last.context.groups) :
                       last.context.groups[j] = <<"w", "h", "e", "e", "l">>)
      /\ last.context.groups = <<>> => StepAt(ij).stage = "groups"

\* C15, as stated: the entries are compared as they are stored, after the
\* substitution
C15_GroupTestOnStoredEntries ==
  last.op = "test" =>
    \A ij \in GroupTestSteps :
      StepAt(ij).stage # "groups"
        <=> StatedGroupTest(RuleAt(RuleOfStep(ij)), last.context, AsStored)

\* C15 happens: a rule with InUnixGroups = ["%sudo%"] was tested for a member
\* of the wheel group and its group test passed
C15_PlaceholderMetByWheelMember ==
  /\ last.op = "test"
  /\ \E ij \in GroupTestSteps :
       /\ RuleAt(RuleOfStep(ij)).unix_groups = <<POLICY_MATCH_WHEEL>>
       /\ StepAt(ij).stage = "end"
       /\ \E j \in 1..Len(last.context.groups) :
            last.context.groups[j] = POLICY_WHEEL_GROUP

\* the rules of the call whose action test passes and whose present
\* non-action constraints all pass
PassingRules ==
  {fk \in RulesOfCall :
     /\ StatedActionTest(RuleAt(fk), last.action_id, g_strstrip)
     /\ FailingConstraints(RuleAt(fk), last.context) = {}}

\* C16: for a rule whose action matches and whose present constraints all
\* pass, policy_test started at it returns its Result verdict if it declares
\* Result, and otherwise what the rest of the chain returns (Unknown if the rule
\* is the last), whatever its ResultInverse
C16_PassingRuleYieldsResultOrPassesOn ==
  last.op = "test" =>
    \A fk \in PassingRules :
      VerdictFrom(fk) = IF HasBit(RuleAt(fk), PF_CONSTRAINT_RESULT)
                        THEN RuleAt(fk).response
                        ELSE VerdictOfRest(fk)

\* C16 happens: a rule that declares ResultInverse "no" and no Result passed
\* every test, the test went on to the next rule, and the call returned that
\* rule's verdict
C16_PassingRuleWithoutResultPassesOn ==
  /\ last.op = "test"
  /\ \E ij \in StepsOfCall :
       /\ RuleOfStep(ij) \in PassingRules
       /\ StepAt(ij).stage = "end"
       /\ ~StepAt(ij).returned
       /\ ~HasBit(RuleAt(RuleOfStep(ij)), PF_CONSTRAINT_RESULT)
       /\ HasBit(RuleAt(RuleOfStep(ij)), PF_CONSTRAINT_RESULT_INVERSE)
       /\ RuleAt(RuleOfStep(ij)).response_inverse = NOT_AUTHORIZED
       /\ HasBit(RuleAt(RuleOfStep(ij)), PF_CONSTRAINT_UNIX_GROUPS)
  /\ last.response = AUTHENTICATION_REQUIRED

(***************************************************************************)
(* Properties of a completed load (Spec).                                  *)
(***************************************************************************)
\* path a comes before path b: by base name, and by full path among equal
\* base names, in byte order
NameThenPathBefore(a, b) ==
  \/ g_strcmp0(BaseName(a), BaseName(b)) < 0
  \/ /\ BaseName(a) = BaseName(b)
     /\ g_strcmp0(a, b) < 0

\* C17: when load_rules completes, the chain holds exactly the files ending in
\* .keyrules of the configured directories that open which compile, each once,
\* by base name and then by full path, whatever the order of the directories
\* and the order the names are read in; the count logged is its length
C17_ChainIsTheCompilableFilesInOrder ==
  (Loaded /\ last.tag = "done") =>
    /\ {last.linked[i] : i \in 1..Len(last.linked)} = CompilablePaths
    /\ \A i, j \in 1..Len(last.linked) :
         i < j => NameThenPathBefore(last.linked[i], last.linked[j])
    /\ Len(policy) = Len(last.linked)
    /\ \A i \in 1..Len(last.linked) :
         policy[i] = policy_file_new_from_path(KeyFileAt(disk, last.linked[i])).file
    /\ last.num_files = Len(policy)

\* C17 happens: /usr is listed before /etc, /etc returns b.keyrules before
\* a.keyrules, all three files compile, and the chain is /etc/a, /usr/a, /etc/b
C17_ThreeFilesTwoDirectoriesReadBackwards ==
  /\ Loaded
  /\ last.tag = "done"
  /\ rules_dirs.dirs = <<dir_usr, dir_etc>>
  /\ ReadNames(disk[dir_etc]) = <<FileName(2), FileName(1)>>
  /\ last.linked = <<PathOf(dir_etc, FileName(1)), PathOf(dir_usr, FileName(1)),
                     PathOf(dir_etc, FileName(2))>>
  /\ last.num_files = 3
  /\ Len(policy) = 3

\* C18, as stated: every PolicyFile policy_file_new_from_path returns for a
\* file of the directories, and every file of the active rule set, has a
\* normal or an admin chain that is not empty
C18_NoFileWithTwoEmptyChains ==
  Loaded =>
    /\ \A path \in PathsOnDisk :
         policy_file_new_from_path(KeyFileAt(disk, path)).tag = "file" =>
           \/ policy_file_new_from_path(KeyFileAt(disk, path)).file.normal # <<>>
           \/ policy_file_new_from_path(KeyFileAt(disk, path)).file.admin # <<>>
    /\ \A f \in 1..Len(policy) : policy[f].normal # <<>> \/ policy[f].admin # <<>>

\* C18 fails so: a.keyrules of /etc is "[Policy]" with "Rules=" and nothing
\* else, the load links it, and the first file of the active rule set has
\* neither a normal nor an admin rule
C18_EmptyRulesListCompiled ==
  /\ Loaded
  /\ last.tag = "done"
  /\ rules_dirs.dirs = <<dir_etc>>
  /\ FileName(1) \in DOMAIN disk[dir_etc].files
  /\ disk[dir_etc].files[FileName(1)] = EmptyRulesFile
  /\ last.linked[1] = PathOf(dir_etc, FileName(1))
  /\ policy[1] = [normal |-> <<>>, admin |-> <<>>]

(***************************************************************************)
(* The directory monitor over a file system that changes: the directory    *)
(* /etc is written to between the notifications, each of which is handled  *)
(* to its end before the next arrives.                                     *)
(***************************************************************************)
InitMonitor ==
  /\ rules_dirs = [set |-> TRUE, dirs |-> <<dir_etc>>]
  /\ disk \in ReloadDisks
  /\ policy = <<>>
  /\ pc = "new"
  /\ last = [op |-> "none"]
  /\ reload = NoReload
  /\ reader = NoReader
  /\ pending = <<>>

NextMonitor ==
  \/ \E ub_crashes \in BOOLEAN : Constructed(ub_crashes)
  \/ DiskChange
  \/ \E file \in {<<>>} \cup {<<n>> : n \in MonitoredNames},
        event_type \in FileMonitorEvents, ub_crashes \in BOOLEAN :
       on_dir_monitor_changed(file, event_type, ub_crashes)

SpecMonitor == InitMonitor /\ [][NextMonitor]_vars

(***************************************************************************)
(* Properties of the directory monitor (SpecMonitor).  In a state with     *)
(* last.op "reload" or "ignored", last.file and last.event_type are what   *)
(* the notification carried, last.policy the rule set active when it       *)
(* arrived, last.changed whether "changed" was emitted.                    *)
(***************************************************************************)
\* a notification as the claim qualifies it: it carries a file whose base name
\* starts with neither '.' nor '#' and ends in .keyrules, and its event is
\* created, deleted or changes-done
Qualifies(file, event_type) ==
  /\ file # <<>>
  /\ Head(file[1]) \notin {".", "#"}
  /\ Len(file[1]) >= 9
  /\ SubSeq(file[1], Len(file[1]) - 8, Len(file[1]))
       = <<".", "k", "e", "y", "r", "u", "l", "e", "s">>
  /\ event_type \in {"CREATED", "DELETED", "CHANGES_DONE_HINT"}

\* C19, as stated: a notification is followed by one full reload and one
\* "changed" emission if it qualifies, and otherwise leaves the active rule set
\* as it was and emits nothing
C19_QualifyingNotificationReloadsAndEmits ==
  last.op \in {"reload", "ignored"} =>
    IF Qualifies(last.file, last.event_type)
    THEN last.op = "reload" /\ last.tag = "done" /\ last.changed
    ELSE last.op = "ignored" /\ ~last.changed /\ policy = last.policy

\* C19 fails so: a.keyrules was active, it was then overwritten with "[Policy]"
\* alone, the notification of that qualified, and the process died in the
\* reload before "changed" was emitted
C19_ReloadDiesBeforeChanged ==
  /\ last.op = "reload"
  /\ Qualifies(last.file, last.event_type)
  /\ last.event_type = "CHANGES_DONE_HINT"
  /\ Len(last.policy) = 1
  /\ last.policy[1].normal # <<>>
  /\ FileName(1) \in DOMAIN disk[dir_etc].files
  /\ disk[dir_etc].files[FileName(1)] = NoRulesFile
  /\ FileName(2) \notin DOMAIN disk[dir_etc].files
  /\ last.tag = "crash"
  /\ ~last.changed
  /\ pc = "crashed"

(***************************************************************************)
(* The rule set across a call (SpecEval): last.policy is the rule set the  *)
(* call was made on, policy the rule set as the call left it.              *)
(***************************************************************************)
\* C20, as stated: policy_file_test leaves every stored field of every rule of
\* the rule set as it was
C20_TestLeavesRuleSetUnchanged ==
  last.op = "test" => policy = last.policy

\* C20 fails so: the rule was stored with the Actions entry " ab", the test for
\* the action id "ab" matched it, and the entry stored after the call is "ab"
C20_TestStripsStoredEntry ==
  /\ last.op = "test"
  /\ last.action_id = act_ab
  /\ Len(last.policy) = 1
  /\ last.policy[1].normal[1].actions = << <<" ", "a", "b">> >>
  /\ policy[1].normal[1].actions = << <<"a", "b">> >>
  /\ policy # last.policy

(***************************************************************************)
(* Properties of the sort of the collected paths (Spec).                   *)
(***************************************************************************)
\* the paths the first loop of load_rules collects for the configured
\* directories, as a list: a directory listed twice is read twice
Collected == CollectFiles(disk, rules_dirs.dirs, 1)

\* some path was collected twice
SomePathCollectedTwice ==
  \E i, j \in 1..Len(Collected) : i # j /\ Collected[i] = Collected[j]

\* C21: for every configured list of rule directories, one that names a
\* directory twice included, the sort of the collected paths never compares
\* two identical full paths: the comparator's assertion holds and load_rules
\* does not abort the process
C21_SortNeverComparesEqualPaths ==
  Loaded => (last.tag # "abort" /\ pc # "aborted")

\* C21 fails so: /etc is configured twice and holds a.keyrules, its path is
\* collected twice, and the comparator's assertion aborted the process in
\* the sort of load_rules at construction
C21_AbortsOnDirectoryListedTwice ==
  /\ last.op = "load"
  /\ rules_dirs.dirs = <<dir_etc, dir_etc>>
  /\ FileName(1) \in DOMAIN disk[dir_etc].files
  /\ SomePathCollectedTwice
  /\ last.tag = "abort"
  /\ pc = "aborted"

(***************************************************************************)
(* Properties of the evaluator and the net groups of a rule (SpecEval).    *)
(***************************************************************************)
\* what a rule may carry for InNetGroups: no such key, or its list
NetGroupsChoices ==
  {[has |-> FALSE, list |-> <<>>],
   [has |-> TRUE, list |-> <<>>],
   [has |-> TRUE, list |-> <<net_n>>],
   [has |-> TRUE, list |-> <<usr_u, POLICY_WHEEL_GROUP>>]}

\* the rule p as policy_load leaves it when InNetGroups is as c says and every
\* other key is the same
SetNetGroups(p, c) ==
  [p EXCEPT !.net_groups = c.list,
            !.constraints = (@ \ {PF_CONSTRAINT_NET_GROUPS})
                            \cup (IF c.has THEN {PF_CONSTRAINT_NET_GROUPS} ELSE {})]

\* the rule set that differs from files in the InNetGroups of its normal
\* rules only: every normal rule carries c
WithNetGroups(files, c) ==
  [f \in 1..Len(files) |->
     [files[f] EXCEPT
        !.normal = [k \in 1..Len(files[f].normal) |->
                      SetNetGroups(files[f].normal[k], c)]]]

\* the normal rules of the rule set of the call that carry InNetGroups
NetGroupRules ==
  {fk \in RulesOfCall : HasBit(RuleAt(fk), PF_CONSTRAINT_NET_GROUPS)}

MaxPending == 3

\* the names of the files that come and go: a.keyrules, .a.keyrules and
\* #b.keyrules, each of which load_rules collects
WatchedNames == {FileName(1), <<".">> \o FileName(1), <<"#">> \o FileName(2)}

\* what such a file may hold
WatchCatalogue == {GoodFile, LastFile, NoRulesFile}

\* the directory /etc as it may stand at any time
WatchDisks ==
  {(dir_etc :> [opens |-> TRUE, reversed |-> FALSE, files |-> fs]) :
     fs \in UNION {[S -> WatchCatalogue] : S \in SUBSET WatchedNames}}

\* the events a GFileMonitor of a directory reports, in order, for a file
\* that is created and written, rewritten, or deleted
EventsOf(change) ==
  CASE change = "create" -> <<"CREATED", "CHANGED", "CHANGES_DONE_HINT">>
    [] change = "write"  -> <<"CHANGED", "CHANGES_DONE_HINT">>
    [] OTHER             -> <<"DELETED">>

\* the change that makes the file `name' of a directory hold o[1], or not
\* exist when o = <<>>; "none" when it is so already
ChangeOf(files, name, o) ==
  IF name \notin DOMAIN files THEN (IF o = <<>> THEN "none" ELSE "create")
  ELSE IF o = <<>> THEN "delete"
  ELSE IF files[name] = o[1] THEN "none" ELSE "write"

\* the files of a directory after the change
FilesAfter(files, name, o) ==
  IF o = <<>> THEN [n \in DOMAIN files \ {name} |-> files[n]]
  ELSE [n \in DOMAIN files \cup {name} |-> IF n = name THEN o[1] ELSE files[n]]

\* a file of the monitored directory /etc is created, rewritten or deleted
\* while the authority runs: the monitor g_file_monitor_directory returned
\* queues the events of the change for the main loop
FileChanged(name, o, change) ==
  /\ pc = "idle"
  /\ change # "none"
  /\ Len(pending) + Len(EventsOf(change)) <= MaxPending
  /\ disk' = [disk EXCEPT ![dir_etc].files = FilesAfter(@, name, o)]
  /\ pending' = pending \o [i \in 1..Len(EventsOf(change)) |->
                              [file |-> <<name>>, event_type |-> EventsOf(change)[i]]]
  /\ UNCHANGED <<rules_dirs, policy, pc, last, reload, reader>>

FileChange(name, o) == FileChanged(name, o, ChangeOf(disk[dir_etc].files, name, o))

\* the main loop dispatches the oldest pending notification: the "changed"
\* signal of the monitor runs on_dir_monitor_changed with its file and event
DispatchPending(ub_crashes) ==
  /\ pending # <<>>
  /\ MonitorChanged(Head(pending).file, Head(pending).event_type, ub_crashes)
  /\ pending' = Tail(pending)

InitWatch ==
  /\ rules_dirs = [set |-> TRUE, dirs |-> <<dir_etc>>]
  /\ disk \in WatchDisks
  /\ policy = <<>>
  /\ pc = "new"
  /\ last = [op |-> "none"]
  /\ reload = NoReload
  /\ reader = NoReader
  /\ pending = <<>>

NextWatch ==
  \/ \E ub_crashes \in BOOLEAN : Constructed(ub_crashes)
  \/ \E name \in WatchedNames, o \in {<<>>} \cup {<<kf>> : kf \in WatchCatalogue} :
       FileChange(name, o)
  \/ \E ub_crashes \in BOOLEAN : DispatchPending(ub_crashes)

SpecWatch == InitWatch /\ [][NextWatch]_vars

(***************************************************************************)
(* Properties of the authority under a changing rule directory             *)
(* (SpecWatch).                                                            *)
(***************************************************************************)
\* the notification was for a file load_rules would load, on its creation,
\* its deletion or the end of its writing
ForLoadableFile(file, event_type) ==
  /\ file # <<>>
  /\ g_str_has_suffix(file[1], RULES_SUFFIX)
  /\ event_type \in {"CREATED", "DELETED", "CHANGES_DONE_HINT"}

\* C23: every file load_rules would load (any name ending in .keyrules in a
\* monitored directory) triggers a reload when it is created, deleted or
\* finished being written, so that once every pending notification has been
\* processed the active rule set is the one a fresh load of the directory as
\* it stands would produce
C23_ActiveRuleSetFollowsDirectory ==
  /\ (last.op \in {"reload", "ignored"} /\ ForLoadableFile(last.file, last.event_type))
       => last.op = "reload"
  /\ (pc = "idle" /\ pending = <<>>) => policy = NewRuleSet

\* C23 fails so: .a.keyrules was written in /etc after the last load, the last
\* of its notifications has been dispatched and ignored, none is pending, and
\* a fresh load would link one file more than the active rule set holds
C23_HiddenRuleFileNeverLoaded ==
  /\ pc = "idle"
  /\ pending = <<>>
  /\ last.op = "ignored"
  /\ last.file = << <<".">> \o FileName(1) >>
  /\ last.event_type = "CHANGES_DONE_HINT"
  /\ (<<".">> \o FileName(1)) \in DOMAIN disk[dir_etc].files
  /\ disk[dir_etc].files[<<".">> \o FileName(1)] = LastFile
  /\ Len(NewRuleSet) = Len(policy) + 1

====
